---- MODULE Spec2Model ----
(***************************************************************************)
(* Model of the quantum_2 logistics engine: the QUBO encoder               *)
(* (qubo_builder.py), the solver chain with its greedy fallback            *)
(* (quantum_solver.py), the optimization pipeline (solver.py), the decoder *)
(* of assignments into routes and the route functions and metrics          *)
(* (qubo_builder.py, quantum_solver.py, solver_simple.py).                 *)
(*                                                                         *)
(* A Python dict is a TLA+ function; a dict key (a tuple) is a TLA+ tuple. *)
(* The QUBO dict Q has the keys <<vi, vj>> and the sentinel key            *)
(* <<"const">> that the encoder stores in the same dict.  Python indices   *)
(* are 0-based and kept so: a matrix is a function tm[i][j] on 0..N-1.     *)
(* A call that can raise returns a record with status "raised".            *)
(***************************************************************************)
EXTENDS Integers, Sequences, FiniteSets, TLC

VARIABLES
    available_solvers,  \* QuantumSolver.available_solvers (a list)
    solver_type,        \* QuantumSolver.solver_type
    dimod_available,    \* module flag DIMOD_AVAILABLE
    input,              \* the arguments of the encoder call that built the problem
    problem,            \* the (Q, var_index) pair last built or handed in
    calls,              \* the _solve_* methods the last solve_qubo entered
    lib_outcome,        \* what the sampler library did in that call
    result,             \* what the last solve_qubo returned or raised
    clock,              \* the wall clock datetime.now() reads
    incidents,          \* TrafficSimulator.incidents (a dict keyed by edge id)
    optimizer_history,  \* RouteOptimizer.optimization_history
    optimization_history,  \* LogisticsEngine.optimization_history
    record,             \* what the last optimize_delivery_route returned or raised
    call,               \* the decoding or route call made last, with its locals
    returned            \* what that call returned, once it has

engine_vars == <<clock, incidents, optimizer_history, optimization_history, record>>

call_vars == <<call, returned>>

vars == <<available_solvers, solver_type, dimod_available, input, problem, calls,
          lib_outcome, result, engine_vars, call_vars>>

----------------------------------------------------------------------------
(* Bounds of the model *)

MaxN == 2          \* largest node count of a problem given to the solver chain
MaxTime == 1       \* largest entry of a matrix given to the solver chain
MaxEdges == 1      \* most non-zero entries of a matrix given to the solver chain
EncMaxN == 3       \* largest node count of a problem given to the encoder alone
EncMaxEdges == 1   \* most non-zero entries of a matrix given to the encoder alone
EncMaxTime == 2    \* largest entry of a matrix given to the encoder alone
MaxCoef == 1       \* largest |coefficient| of a QUBO dict handed in directly
MaxOnes == 1       \* a backend sample sets to 1 only variables below this index
EngMaxN == 2       \* most coordinates of a request to the engine
MaxPlace == 1      \* the coordinates of a request are the places 0..MaxPlace
MaxCalls == 2      \* most requests the engine serves in a run
DecMaxN == 3       \* largest node count of an assignment given to the decoder
MaxVehicles == 1   \* most vehicles of an assignment given to the decoder
MaxActive == 3     \* most variables set to 1, the all-ones assignment apart
PipeMaxOnes == 2   \* most variables a backend sample of the route pipeline sets to 1
RtMaxN == 3        \* largest node count of a matrix given to a route function
RtMaxEdges == 1    \* most non-zero entries of a matrix given to a route function
RtMaxTime == 2     \* largest entry of a matrix given to a route function
SimMaxN == 3       \* most coordinates of a call on the simulator alone
SimMaxCalls == 2   \* most calls made on one simulator
HistMaxCalls == 2  \* most requests made while the history is watched
ConcMaxTicks == 1  \* most minutes that pass while two requests are served
SimpleMaxN == 4     \* largest node count of a matrix given to the simplified optimizer
SimpleMaxEdges == 2 \* most non-zero entries of such a matrix
SimpleMaxTime == 2  \* largest entry of such a matrix

----------------------------------------------------------------------------
(* Generic helpers for Python loops and dicts *)

\* for k in range(n): the concatenation of the items each iteration yields
ConcatFor(n, F(_)) ==
    LET f[k \in 0..n] == IF k = 0 THEN <<>> ELSE f[k - 1] \o F(k - 1)
    IN f[n]

RECURSIVE SumOver(_, _)
SumOver(S, f) ==
    IF S = {} THEN 0
    ELSE LET e == CHOOSE e \in S : TRUE IN f[e] + SumOver(S \ {e}, f)

\* the dict Q after a run of "Q[k] += v" statements on a defaultdict(float);
\* ups lists the <<k, v>> of the statements in order
ApplyUpdates(Q, ups) ==
    LET keys == DOMAIN Q \cup {ups[n][1] : n \in 1..Len(ups)}
        added(k) == SumOver({n \in 1..Len(ups) : ups[n][1] = k},
                            [n \in 1..Len(ups) |-> ups[n][2]])
    IN [k \in keys |-> (IF k \in DOMAIN Q THEN Q[k] ELSE 0) + added(k)]

\* itertools.combinations(s, 2)
Combinations2(s) ==
    ConcatFor(Len(s), LAMBDA x :
        ConcatFor(Len(s), LAMBDA y :
            IF x < y THEN << <<s[x + 1], s[y + 1]>> >> ELSE <<>>))

CONST_KEY == <<"const">>

----------------------------------------------------------------------------
(* qubo_builder.py: QUBOBuilder *)

lambda_penalty == 100

\* a faulty variant of tsp_var_index: idx starts again at 0 for every node
tsp_var_index_restart(N) ==
    [e \in (0..N - 1) \X (0..N - 1) |-> e[2]]

\* var_index of build_time_dependent_tsp_qubo: idx counts the loop iterations
tsp_var_index(N) ==
    LET order == ConcatFor(N, LAMBDA i : ConcatFor(N, LAMBDA p : << <<i, p>> >>))
        f[n \in 0..Len(order)] ==
            IF n = 0 THEN [vi |-> <<>>, idx |-> 0]
            ELSE LET prev == f[n - 1]
                 IN [vi |-> (order[n] :> prev.idx) @@ prev.vi, idx |-> prev.idx + 1]
    IN f[Len(order)].vi

\* a faulty variant of the objective loop: the last position is not joined to the
\* first, p_next = p + 1
tsp_objective_open(N, tm, vi) ==
    ConcatFor(N, LAMBDA p :
        ConcatFor(N, LAMBDA i :
            ConcatFor(N, LAMBDA j :
                IF i = j \/ p + 1 >= N THEN <<>>
                ELSE << << <<vi[<<i, p>>], vi[<<j, p + 1>>]>>, tm[i][j] >> >>)))

\* the objective loop: Q[(vi, vj)] += time_matrix[i, j]
tsp_objective(N, tm, vi) ==
    ConcatFor(N, LAMBDA p :
        ConcatFor(N, LAMBDA i :
            ConcatFor(N, LAMBDA j :
                IF i = j THEN <<>>
                ELSE << << <<vi[<<i, p>>], vi[<<j, (p + 1) % N>>]>>, tm[i][j] >> >>)))

\* one one-hot group: pairs +2*lambda, diagonal -2*lambda, constant +lambda
one_hot_group(group) ==
    LET pairs == Combinations2(group)
    IN [n \in 1..Len(pairs) |-> <<pairs[n], 2 * lambda_penalty>>]
       \o [n \in 1..Len(group) |-> << <<group[n], group[n]>>, -2 * lambda_penalty >>]
       \o << <<CONST_KEY, lambda_penalty>> >>

\* Constraint 1: each node visited exactly once
tsp_node_constraints(N, vi) ==
    ConcatFor(N, LAMBDA i : one_hot_group([p \in 1..N |-> vi[<<i, p - 1>>]]))

\* Constraint 2: each position has exactly one node
tsp_position_constraints(N, vi) ==
    ConcatFor(N, LAMBDA p : one_hot_group([i \in 1..N |-> vi[<<i - 1, p>>]]))

\* the positive entries of the matrix, time_matrix[time_matrix > 0]
PositiveEntries(N, tm) ==
    {tm[i][j] : i \in 0..N - 1, j \in 0..N - 1} \ {0}

MinOf(S) == CHOOSE m \in S : \A x \in S : m <= x

service_time == 5

estimated_arrival(N, tm, p) == MinOf(PositiveEntries(N, tm)) * p + p * service_time

\* np.min of an empty selection raises ValueError; the loop body runs for N >= 2
time_window_raises(N, tm) == N >= 2 /\ PositiveEntries(N, tm) = {}

\* "earliest, latest = time_windows[i]" raises IndexError for a list with fewer
\* windows than nodes; the loop reads the windows of the nodes 1..N-1
window_index_raises(N, tw) == N >= 2 /\ Len(tw) < N

\* _add_time_window_constraints; time_windows[i] is tw[i + 1]
add_time_window_constraints(N, tm, tw, vi) ==
    ConcatFor(N, LAMBDA i :
        IF i = 0 THEN <<>>
        ELSE ConcatFor(N, LAMBDA p :
            LET earliest == tw[i + 1][1]
                latest == tw[i + 1][2]
                est == estimated_arrival(N, tm, p)
                key == <<vi[<<i, p>>], vi[<<i, p>>]>>
            IN IF est < earliest
               THEN << <<key, (lambda_penalty * (earliest - est)) \div 60>> >>
               ELSE IF est > latest
               THEN << <<key, (lambda_penalty * (est - latest)) \div 60>> >>
               ELSE <<>>))

Built(Q, vi) == [status |-> "ok", Q |-> Q, var_index |-> vi]
BuildRaised == [status |-> "raised", Q |-> <<>>, var_index |-> <<>>]

\* build_time_dependent_tsp_qubo(time_matrix, time_windows); tw = <<>> is None
build_time_dependent_tsp_qubo(N, tm, tw) ==
    LET vi == tsp_var_index(N)
        Q1 == ApplyUpdates(<<>>, tsp_objective(N, tm, vi))
        Q2 == ApplyUpdates(Q1, tsp_node_constraints(N, vi))
        Q3 == ApplyUpdates(Q2, tsp_position_constraints(N, vi))
    IN IF tw = <<>> THEN Built(Q3, vi)
       ELSE IF window_index_raises(N, tw) \/ time_window_raises(N, tm) THEN BuildRaised
       ELSE Built(ApplyUpdates(Q3, add_time_window_constraints(N, tm, tw, vi)), vi)

\* var_index of build_vrp_qubo: one variable per (i, j, k) with i # j
vrp_var_index(N, num_vehicles) ==
    LET order == ConcatFor(num_vehicles, LAMBDA k :
                     ConcatFor(N, LAMBDA i :
                         ConcatFor(N, LAMBDA j :
                             IF i # j THEN << <<i, j, k>> >> ELSE <<>>)))
        f[n \in 0..Len(order)] ==
            IF n = 0 THEN [vi |-> <<>>, idx |-> 0]
            ELSE LET prev == f[n - 1]
                 IN [vi |-> (order[n] :> prev.idx) @@ prev.vi, idx |-> prev.idx + 1]
    IN f[Len(order)].vi

\* the objective loop: Q[(var_ij, var_ij)] += time_matrix[i, j]
vrp_objective(N, tm, num_vehicles, vi) ==
    ConcatFor(num_vehicles, LAMBDA k :
        ConcatFor(N, LAMBDA i :
            ConcatFor(N, LAMBDA j :
                IF i # j
                THEN << << <<vi[<<i, j, k>>], vi[<<i, j, k>>]>>, tm[i][j] >> >>
                ELSE <<>>)))

\* Constraint 1: each customer visited exactly once (the depot is skipped)
vrp_customer_constraints(N, num_vehicles, vi) ==
    ConcatFor(N, LAMBDA j :
        IF j = 0 THEN <<>>
        ELSE one_hot_group(
                 ConcatFor(num_vehicles, LAMBDA k :
                     ConcatFor(N, LAMBDA i :
                         IF i # j /\ <<i, j, k>> \in DOMAIN vi
                         THEN <<vi[<<i, j, k>>]>> ELSE <<>>))))

\* Constraint 2: each vehicle leaves depot exactly once
vrp_depot_constraints(N, num_vehicles, vi) ==
    ConcatFor(num_vehicles, LAMBDA k :
        one_hot_group([j \in 1..N - 1 |-> vi[<<0, j, k>>]]))

\* sum(demands[1:]); demands[i] is demands[i + 1]
total_demand(demands) ==
    SumOver(2..Len(demands), demands)

\* Constraint 3: capacity constraints (simplified)
vrp_capacity_constraints(N, demands, vehicle_capacity, num_vehicles, vi) ==
    ConcatFor(num_vehicles, LAMBDA k :
        IF total_demand(demands) > vehicle_capacity
        THEN LET penalty == (lambda_penalty * (total_demand(demands) - vehicle_capacity))
                                \div vehicle_capacity
             IN ConcatFor(N, LAMBDA i :
                    ConcatFor(N, LAMBDA j :
                        IF j >= 1 /\ i # j /\ <<i, j, k>> \in DOMAIN vi
                        THEN << << <<vi[<<i, j, k>>], vi[<<i, j, k>>]>>, penalty >> >>
                        ELSE <<>>))
        ELSE <<>>)

\* build_vrp_qubo(time_matrix, demands, vehicle_capacity, num_vehicles)
build_vrp_qubo(N, tm, demands, vehicle_capacity, num_vehicles) ==
    LET vi == vrp_var_index(N, num_vehicles)
        Q1 == ApplyUpdates(<<>>, vrp_objective(N, tm, num_vehicles, vi))
        Q2 == ApplyUpdates(Q1, vrp_customer_constraints(N, num_vehicles, vi))
        Q3 == ApplyUpdates(Q2, vrp_depot_constraints(N, num_vehicles, vi))
        Q4 == ApplyUpdates(Q3, vrp_capacity_constraints(N, demands, vehicle_capacity,
                                                        num_vehicles, vi))
    IN Built(Q4, vi)

----------------------------------------------------------------------------
(* quantum_solver.py: QuantumSolver *)

Returned(solution, energy) == [status |-> "ok", solution |-> solution, energy |-> energy]
Raised == [status |-> "raised", solution |-> <<>>, energy |-> 0]
NoResult == [status |-> "none", solution |-> <<>>, energy |-> 0]

\* "for (i, j) in Q.keys()" raises ValueError on a key that is not a pair
unpack_raises(Q) == \E k \in DOMAIN Q : Len(k) # 2

\* solution.get(v, 0)
Get(solution, v) == IF v \in DOMAIN solution THEN solution[v] ELSE 0

\* _solve_greedy(Q, var_index); var_index is not read
solve_greedy(Q, var_index) ==
    IF unpack_raises(Q) THEN Raised
    ELSE
    LET offdiag == {k \in DOMAIN Q : k[1] # k[2]}
        variables == {k[1] : k \in offdiag} \cup {k[2] : k \in offdiag}
        linear_terms == [i \in {k[1] : k \in DOMAIN Q \ offdiag} |-> Q[<<i, i>>]]
        chosen == {v \in DOMAIN linear_terms : linear_terms[v] < 0}
        solution == [v \in variables \cup chosen |-> IF v \in chosen THEN 1 ELSE 0]
        both == {k \in offdiag : Get(solution, k[1]) = 1 /\ Get(solution, k[2]) = 1}
    IN Returned(solution, SumOver(chosen, linear_terms) + SumOver(both, Q))

\* _check_available_solvers: dwave stands for DWAVE_AVAILABLE and a client that
\* lists solvers
check_available_solvers(dwave, neal, dimod) ==
    (IF dwave THEN <<"dwave_hybrid", "dwave_qpu">> ELSE <<>>)
    \o (IF neal THEN <<"neal">> ELSE <<>>)
    \o (IF dimod THEN <<"dimod_exact">> ELSE <<>>)
    \o <<"greedy">>

In(x, list) == \E n \in 1..Len(list) : list[n] = x

\* a faulty variant of get_best_solver: simulated annealing preferred to the hybrid annealer
get_best_solver_neal_first(available) ==
    IF In("neal", available) THEN "neal"
    ELSE IF In("dwave_hybrid", available) THEN "dwave_hybrid"
    ELSE IF In("dimod_exact", available) THEN "dimod_exact"
    ELSE "greedy"

\* _get_best_solver
get_best_solver(available) ==
    IF In("dwave_hybrid", available) THEN "dwave_hybrid"
    ELSE IF In("neal", available) THEN "neal"
    ELSE IF In("dimod_exact", available) THEN "dimod_exact"
    ELSE "greedy"

\* a faulty variant of dispatch: the availability of the requested backend is not checked
dispatch_unchecked(solver, available) ==
    IF solver \in {"dwave_hybrid", "dwave_qpu", "neal", "dimod_exact"} THEN solver
    ELSE "greedy"

\* the if/elif chain of solve_qubo: the _solve_* method entered
dispatch(solver, available) ==
    IF solver = "dwave_hybrid" /\ In("dwave_hybrid", available) THEN "dwave_hybrid"
    ELSE IF solver = "dwave_qpu" /\ In("dwave_qpu", available) THEN "dwave_qpu"
    ELSE IF solver = "neal" /\ In("neal", available) THEN "neal"
    ELSE IF solver = "dimod_exact" /\ In("dimod_exact", available) THEN "dimod_exact"
    ELSE "greedy"

\* the energy the sampler reports for a sample: the value of the model it was given
sample_energy(Q, sample) ==
    SumOver({k \in DOMAIN Q : Len(k) = 2 /\ Get(sample, k[1]) = 1 /\ Get(sample, k[2]) = 1}, Q)

\* a faulty variant of solve_backend: a failed backend is tried once more before greedy
solve_backend_retry(method, Q, lib) ==
    IF lib.ok
    THEN [res |-> Returned(lib.sample, sample_energy(Q, lib.sample)), calls |-> <<method>>,
          lib |-> "returned"]
    ELSE [res |-> solve_greedy(Q, <<>>), calls |-> <<method, method, "greedy">>,
          lib |-> "raised"]

\* _solve_dwave_hybrid, _solve_dwave_qpu, _solve_neal, _solve_dimod_exact: the try
\* block returns the sampler's first sample; any exception goes to the greedy solver
solve_backend(method, Q, lib) ==
    IF lib.ok
    THEN [res |-> Returned(lib.sample, sample_energy(Q, lib.sample)), calls |-> <<method>>,
          lib |-> "returned"]
    ELSE [res |-> solve_greedy(Q, <<>>), calls |-> <<method, "greedy">>, lib |-> "raised"]

\* solve_qubo(Q, var_index) of a solver with the given solver_type and list
solve_qubo(type, available, Q, var_index, lib) ==
    LET solver == IF type = "auto" THEN get_best_solver(available) ELSE type
        method == dispatch(solver, available)
    IN IF method = "greedy"
       THEN [res |-> solve_greedy(Q, var_index), calls |-> <<"greedy">>,
             lib |-> "not_called"]
       ELSE solve_backend(method, Q, lib)

----------------------------------------------------------------------------
(* Inputs *)

\* N x N travel-time matrices with a zero diagonal: at most maxEdges non-zero
\* entries, or such a matrix made symmetric
Matrices(N, maxEdges, maxTime) ==
    LET pairs == {e \in (0..N - 1) \X (0..N - 1) : e[1] # e[2]}
        choices == UNION {[E -> 1..maxTime] :
                            E \in {E \in SUBSET pairs : Cardinality(E) <= maxEdges}}
        entry(c, i, j) == IF <<i, j>> \in DOMAIN c THEN c[<<i, j>>] ELSE 0
    IN {[i \in 0..N - 1 |-> [j \in 0..N - 1 |-> entry(c, i, j)]] : c \in choices}
       \cup {[i \in 0..N - 1 |-> [j \in 0..N - 1 |->
                IF entry(c, i, j) >= entry(c, j, i) THEN entry(c, i, j)
                ELSE entry(c, j, i)]] : c \in choices}

\* a time window (earliest, latest) in minutes
WindowChoices == {<<0, 480>>, <<60, 180>>}

\* time_windows: None (<<>>) or one window per node
WindowLists(N) == {<<>>} \cup {[i \in 1..N |-> w] : w \in WindowChoices}

\* the window penalties lambda * violation / 60 are whole numbers
ExactWindows(N, tm, tw) ==
    IF tw = <<>> \/ window_index_raises(N, tw) \/ time_window_raises(N, tm) THEN TRUE
    ELSE \A i \in 1..N - 1, p \in 0..N - 1 :
        LET est == estimated_arrival(N, tm, p)
        IN /\ est < tw[i + 1][1] => (lambda_penalty * (tw[i + 1][1] - est)) % 60 = 0
           /\ est > tw[i + 1][2] => (lambda_penalty * (est - tw[i + 1][2])) % 60 = 0

\* QUBO dicts a caller hands to solve_qubo directly (no sentinel key)
DirectKeys == {<<0, 0>>, <<0, 1>>, <<2, 2>>}
DirectQubos ==
    UNION {[K -> -MaxCoef..MaxCoef] : K \in {{<<2, 2>>}, {<<0, 0>>, <<0, 1>>}, DirectKeys}}

\* (demand of every node, vehicle_capacity, num_vehicles): the defaults of
\* build_vrp_qubo with one vehicle, and a load that exceeds the capacity of two
VrpLoads == {<<0, 100, 1>>, <<1, 1, 2>>}

SolverTypes ==
    {"auto", "dwave_hybrid", "dwave_qpu", "neal", "dimod_exact", "greedy", "other"}

\* the variables a binary quadratic model made from Q declares
VariablesOf(Q) ==
    UNION {{k[n] : n \in 1..Len(k)} : k \in {k \in DOMAIN Q : Len(k) = 2}}

\* a sample: an assignment to the variables of Q, its ones among the first MaxOnes
Samples(Q) ==
    {[v \in VariablesOf(Q) |-> IF v \in S THEN 1 ELSE 0] :
        S \in SUBSET (VariablesOf(Q) \cap 0..MaxOnes - 1)}

\* what the sampler library does inside the try block: it raises (also a NameError
\* when dimod was not imported), or it returns a first sample
LibOutcomes(Q, dimod) ==
    {[ok |-> FALSE, sample |-> <<>>]}
    \cup (IF dimod THEN {[ok |-> TRUE, sample |-> s] : s \in Samples(Q)} ELSE {})

----------------------------------------------------------------------------
(* The solver chain as a state machine *)

NoInput == [N |-> 0, tm |-> <<>>, tw |-> <<>>]

NoProblem == [origin |-> "none", status |-> "none", Q |-> <<>>, var_index |-> <<>>]

Problem(origin, built) ==
    [origin |-> origin, status |-> built.status, Q |-> built.Q, var_index |-> built.var_index]

NoRecord == [status |-> "none"]

NoCall == [op |-> "none"]

NoReturn == [status |-> "none"]

Midnight == [minute |-> 0, day |-> 0]

\* TrafficSimulator(), RouteOptimizer() and LogisticsEngine() after construction
EngineIdle ==
    /\ incidents = <<>>
    /\ optimizer_history = <<>>
    /\ optimization_history = <<>>
    /\ record = NoRecord
    /\ call = NoCall
    /\ returned = NoReturn

\* QuantumSolver(solver_type): the state after construction
Init ==
    \E dwave \in BOOLEAN, neal \in BOOLEAN, dimod \in BOOLEAN, type \in SolverTypes :
        /\ available_solvers = check_available_solvers(dwave, neal, dimod)
        /\ solver_type = type
        /\ dimod_available = dimod
        /\ input = NoInput
        /\ problem = NoProblem
        /\ calls = <<>>
        /\ lib_outcome = "none"
        /\ result = NoResult
        /\ clock = Midnight
        /\ EngineIdle

\* builder.build_time_dependent_tsp_qubo(time_matrix, time_windows)
BuildTspOf(maxN, maxEdges, maxTime) ==
    \E N \in 1..maxN :
        \E tm \in Matrices(N, maxEdges, maxTime), tw \in WindowLists(N) :
            /\ problem = NoProblem
            /\ ExactWindows(N, tm, tw)
            /\ input' = [N |-> N, tm |-> tm, tw |-> tw]
            /\ problem' = Problem("tsp", build_time_dependent_tsp_qubo(N, tm, tw))
            /\ UNCHANGED <<available_solvers, solver_type, dimod_available, calls,
                           lib_outcome, result, engine_vars, call_vars>>

\* builder.build_vrp_qubo(time_matrix, demands, vehicle_capacity, num_vehicles)
BuildVrpOf(maxN, maxEdges, maxTime) ==
    \E N \in 2..maxN, load \in VrpLoads :
        \E tm \in Matrices(N, maxEdges, maxTime) :
            /\ problem = NoProblem
            /\ input' = [N |-> N, tm |-> tm, tw |-> <<>>, load |-> load]
            /\ problem' = Problem("vrp", build_vrp_qubo(N, tm, [i \in 1..N |-> load[1]],
                                                        load[2], load[3]))
            /\ UNCHANGED <<available_solvers, solver_type, dimod_available, calls,
                           lib_outcome, result, engine_vars, call_vars>>

BuildTsp == BuildTspOf(MaxN, MaxEdges, MaxTime)
BuildVrp == BuildVrpOf(MaxN, MaxEdges, MaxTime)

\* a caller's own QUBO dict
HandIn ==
    \E Q \in DirectQubos :
        /\ problem = NoProblem
        /\ problem' = Problem("direct", Built(Q, <<>>))
        /\ UNCHANGED <<available_solvers, solver_type, dimod_available, input, calls,
                       lib_outcome, result, engine_vars, call_vars>>

\* solver.solve_qubo(Q, var_index)
SolveQubo ==
    /\ problem.status = "ok"
    /\ result = NoResult
    /\ \E lib \in LibOutcomes(problem.Q, dimod_available) :
          LET out == solve_qubo(solver_type, available_solvers, problem.Q,
                                problem.var_index, lib)
          IN /\ result' = out.res
             /\ calls' = out.calls
             /\ lib_outcome' = out.lib
    /\ UNCHANGED <<available_solvers, solver_type, dimod_available, input, problem,
                   engine_vars, call_vars>>

Next == BuildTsp \/ BuildVrp \/ HandIn \/ SolveQubo

Spec == Init /\ [][Next]_vars

----------------------------------------------------------------------------
(* The encoder alone, on larger problems *)

InitEnc ==
    /\ available_solvers = <<"greedy">>
    /\ solver_type = "auto"
    /\ dimod_available = FALSE
    /\ input = NoInput
    /\ problem = NoProblem
    /\ calls = <<>>
    /\ lib_outcome = "none"
    /\ result = NoResult
    /\ clock = Midnight
    /\ EngineIdle

EncodeTsp == BuildTspOf(EncMaxN, EncMaxEdges, EncMaxTime)
EncodeVrp == BuildVrpOf(EncMaxN, EncMaxEdges, EncMaxTime)

NextEnc == EncodeTsp \/ EncodeVrp

SpecEnc == InitEnc /\ [][NextEnc]_vars

----------------------------------------------------------------------------
(* traffic_simulator.py: TrafficPredictor and TrafficSimulator *)

\* Times are whole minutes.  A coordinate is a place on one meridian, place c
\* lying c * 1250 km from place 0, so that the leg between two neighbouring
\* places takes 2500 minutes at base_speed_kmph = 30.  A multiplier is kept as a
\* whole numerator: get_time_multiplier over 250, an incident multiplier and a
\* severity over 10; with these legs every matrix entry is a whole number.

\* haversine_distance(coords[i], coords[j]) / base_speed_kmph * 60
base_time_minutes(c1, c2) == 2500 * (IF c1 >= c2 THEN c1 - c2 ELSE c2 - c1)

peak_hours == {<<7, 10>>, <<17, 20>>}

\* weather_impact.get(weather, 1.0), over 10
weather_impact(weather) ==
    CASE weather = "clear" -> 10
      [] weather = "rain" -> 13
      [] weather = "fog" -> 15
      [] weather = "storm" -> 18
      [] OTHER -> 10

\* get_time_multiplier, over 250: peak 1.4 = 7/5, weekend 0.8 = 4/5
get_time_multiplier(hour, day_of_week, weather) ==
    (IF \E r \in peak_hours : r[1] <= hour /\ hour <= r[2] THEN 7 ELSE 5)
    * (IF day_of_week >= 5 THEN 4 ELSE 5)
    * weather_impact(weather)

\* incident_multipliers.get(incident_type, 1.0), over 10
incident_multipliers(incident_type) ==
    CASE incident_type = "accident" -> 18
      [] incident_type = "construction" -> 15
      [] incident_type = "road_closure" -> 20
      [] incident_type = "protest" -> 16
      [] OTHER -> 10

\* predict_incident_impact, over 10
predict_incident_impact(incident_type, severity) ==
    (incident_multipliers(incident_type) * severity) \div 10

\* add_incident with duration_hours = 2.0; start_time is the clock it reads
add_incident(registry, edge_id, incident_type, severity, start_time) ==
    (edge_id :> [type |-> incident_type,
                 severity |-> severity,
                 start_time |-> start_time,
                 end_time |-> start_time + 120,
                 multiplier |-> predict_incident_impact(incident_type, severity)])
    @@ registry

\* get_edge_multiplier, over 10
get_edge_multiplier(registry, edge_id, current_time) ==
    IF edge_id \notin DOMAIN registry THEN 10
    ELSE IF registry[edge_id].start_time <= current_time
            /\ current_time <= registry[edge_id].end_time
         THEN registry[edge_id].multiplier
         ELSE 10

\* compute_travel_time_matrix; coords[i] is coords[i + 1], the edge id "i-j" is <<i, j>>
compute_travel_time_matrix(registry, coords, current_time, day_of_week, weather) ==
    LET n == Len(coords)
    IN [i \in 0..n - 1 |-> [j \in 0..n - 1 |->
           IF i = j THEN 0
           ELSE (base_time_minutes(coords[i + 1], coords[j + 1])
                 * get_time_multiplier(current_time \div 60, day_of_week, weather)
                 * get_edge_multiplier(registry, <<i, j>>, current_time)) \div 2500]]

\* the storm loop: for i in range(len(coords) - 1): add_incident(f"{i}-{i+1}", ...)
storm_incidents(registry, n, start_time) ==
    LET f[k \in 0..n - 1] ==
            IF k = 0 THEN registry
            ELSE add_incident(f[k - 1], <<k - 1, k>>, "road_closure", 20, start_time)
    IN IF n = 0 THEN registry ELSE f[n - 1]

\* simulate_scenario: now is the clock read on entry, started the clock add_incident
\* reads; the registry it leaves behind is part of the returned record
simulate_scenario(registry, coords, scenario, now, started) ==
    LET current_time == IF scenario = "peak" THEN 8 * 60 + 30 ELSE now.minute
        weather == CASE scenario = "incident" -> "rain"
                     [] scenario = "storm" -> "storm"
                     [] OTHER -> "clear"
        after == CASE scenario = "incident" ->
                        add_incident(add_incident(registry, <<0, 1>>, "accident", 15, started),
                                     <<1, 2>>, "construction", 12, started)
                   [] scenario = "storm" -> storm_incidents(registry, Len(coords), started)
                   [] OTHER -> registry
    IN [time_matrix |-> compute_travel_time_matrix(after, coords, current_time, now.day,
                                                   weather),
        scenario |-> scenario,
        weather |-> weather,
        current_time |-> current_time,
        incidents |-> after]

----------------------------------------------------------------------------
(* qubo_builder.py: decoding; quantum_solver.py: RouteOptimizer *)

MaxOf(S) == CHOOSE m \in S : \A x \in S : m >= x

RECURSIVE SortedSeq(_)
\* sorted(S)
SortedSeq(S) ==
    IF S = {} THEN <<>> ELSE <<MinOf(S)>> \o SortedSeq(S \ {MinOf(S)})

\* _extract_tsp_solution: var_index is walked node by node, so a later node
\* overwrites position_to_node[pos]
extract_tsp_solution(N, solution, var_index) ==
    LET active(pos) == {node \in 0..N - 1 : Get(solution, var_index[<<node, pos>>]) = 1}
        positions == SortedSeq({pos \in 0..N - 1 : active(pos) # {}})
    IN [n \in 1..Len(positions) |-> MaxOf(active(positions[n]))]

\* a faulty variant of _calculate_route_time: the leg back to the depot is left out
calculate_route_time_open(route, tm) ==
    IF Len(route) < 2 THEN 0
    ELSE SumOver(1..Len(route) - 1, [i \in 1..Len(route) - 1 |-> tm[route[i]][route[i + 1]]])

\* a faulty variant of _calculate_route_time: a leg is read at the loop index
\* i + 1 instead of at the node route[i + 1]
calculate_route_time_by_index(route, tm) ==
    IF Len(route) < 2 THEN 0
    ELSE SumOver(1..Len(route) - 1, [i \in 1..Len(route) - 1 |-> tm[route[i]][i]])
         + (IF route[Len(route)] # 0 THEN tm[route[Len(route)]][0] ELSE 0)

\* _calculate_route_time; route[i] is route[i + 1]
calculate_route_time(route, tm) ==
    IF Len(route) < 2 THEN 0
    ELSE SumOver(1..Len(route) - 1, [i \in 1..Len(route) - 1 |-> tm[route[i]][route[i + 1]]])
         + (IF route[Len(route)] # 0 THEN tm[route[Len(route)]][0] ELSE 0)

\* _calculate_on_time_deliveries, as the fraction num / den of a percentage
calculate_on_time_deliveries(route, tm, tw) ==
    IF tw = <<>> \/ Len(route) < 2 THEN [num |-> 100, den |-> 1]
    ELSE LET L == Len(route)
             f[i \in 0..L - 1] ==
                 IF i = 0 THEN [on_time_count |-> 0, current_time |-> 0]
                 ELSE LET prev == f[i - 1]
                          node == route[i + 1]
                          hit == IF node < Len(tw)
                                 THEN tw[node + 1][1] <= prev.current_time
                                      /\ prev.current_time <= tw[node + 1][2]
                                 ELSE FALSE
                          leg == IF i < L - 1 THEN tm[node][route[i + 2]] ELSE tm[node][0]
                      IN [on_time_count |-> prev.on_time_count + (IF hit THEN 1 ELSE 0),
                          current_time |-> prev.current_time + leg]
         IN [num |-> f[L - 1].on_time_count * 100, den |-> L - 1]

RECURSIVE nearest_neighbour_last_tie(_, _, _)
\* a faulty variant of the while loop: of equal candidates the last one is taken
nearest_neighbour_last_tie(tm, route, unvisited) ==
    IF unvisited = {} THEN route
    ELSE LET current == route[Len(route)]
             best == MinOf({tm[current][x] : x \in unvisited})
             nearest == MaxOf({x \in unvisited : tm[current][x] = best})
         IN nearest_neighbour_last_tie(tm, Append(route, nearest), unvisited \ {nearest})

RECURSIVE nearest_neighbour(_, _, _)
\* the while loop of create_baseline_route; min takes the first of equal candidates
nearest_neighbour(tm, route, unvisited) ==
    IF unvisited = {} THEN route
    ELSE LET current == route[Len(route)]
             best == MinOf({tm[current][x] : x \in unvisited})
             nearest == MinOf({x \in unvisited : tm[current][x] = best})
         IN nearest_neighbour(tm, Append(route, nearest), unvisited \ {nearest})

\* create_baseline_route
create_baseline_route(N, tm) == nearest_neighbour(tm, <<0>>, 1..N - 1)

\* compare_with_baseline: a route of fewer than 2 nodes costs the Python float 0.0,
\* any other cost is a numpy float; 0.0 / 0.0 of Python floats raises, a numpy
\* division by zero yields nan or inf
compare_with_baseline(tm, baseline_route, optimized_route) ==
    LET baseline_time == calculate_route_time(baseline_route, tm)
        optimized_time == calculate_route_time(optimized_route, tm)
        time_saved == baseline_time - optimized_time
    IN IF baseline_time = 0 /\ Len(baseline_route) < 2 /\ Len(optimized_route) < 2
       THEN [status |-> "raised"]
       ELSE [status |-> "ok",
             baseline_time |-> baseline_time,
             optimized_time |-> optimized_time,
             improvement_percent |->
                 IF baseline_time # 0
                 THEN [kind |-> "number", num |-> time_saved * 100, den |-> baseline_time]
                 ELSE IF time_saved = 0 THEN [kind |-> "nan", num |-> 0, den |-> 0]
                 ELSE [kind |-> "inf", num |-> time_saved, den |-> 0],
             time_saved |-> time_saved]

NoSolve == [res |-> NoResult, calls |-> <<>>, lib |-> "none"]

\* RouteOptimizer.optimize_route(time_matrix, time_windows, 'tsp')
optimize_route(N, tm, tw, type, available, lib) ==
    LET built == build_time_dependent_tsp_qubo(N, tm, tw)
        solve == solve_qubo(type, available, built.Q, built.var_index, lib)
        route == extract_tsp_solution(N, solve.res.solution, built.var_index)
    IN IF built.status = "raised"
       THEN [status |-> "raised", at |-> "encoder", built |-> built, solve |-> NoSolve,
             result |-> <<>>]
       ELSE IF solve.res.status = "raised"
       THEN [status |-> "raised", at |-> "solver", built |-> built, solve |-> solve,
             result |-> <<>>]
       ELSE [status |-> "ok", at |-> "", built |-> built, solve |-> solve,
             result |-> [route |-> route,
                         total_time |-> calculate_route_time(route, tm),
                         energy |-> solve.res.energy,
                         on_time_deliveries |-> calculate_on_time_deliveries(route, tm, tw),
                         solver_type |-> type,
                         problem_type |-> "tsp"]]

----------------------------------------------------------------------------
(* solver.py: LogisticsEngine *)

\* _calculate_co2_savings: time_saved / 60 * 30 * 0.2, as a fraction
calculate_co2_savings(time_saved_minutes) == [num |-> time_saved_minutes, den |-> 10]

\* _calculate_fuel_savings: time_saved / 60 * 30 * 0.08, as a fraction
calculate_fuel_savings(time_saved_minutes) == [num |-> time_saved_minutes, den |-> 25]

\* optimize_delivery_route(coords, scenario, time_windows, 'tsp') up to the return:
\* sim is the simulator's result, opt the optimizer's
delivery_result(coords, scenario, tw, sim, opt) ==
    LET tm == sim.time_matrix
        baseline_route == create_baseline_route(Len(coords), tm)
        comparison == compare_with_baseline(tm, baseline_route, opt.result.route)
    IN IF opt.status = "raised" THEN [status |-> "raised", at |-> opt.at, value |-> <<>>]
       ELSE IF comparison.status = "raised"
       THEN [status |-> "raised", at |-> "compare", value |-> <<>>]
       ELSE [status |-> "ok", at |-> "", value |->
             [success |-> TRUE,
              scenario |-> scenario,
              traffic_conditions |->
                  [weather |-> sim.weather,
                   incidents |-> Cardinality(DOMAIN sim.incidents),
                   current_time |-> sim.current_time],
              baseline |->
                  [route |-> baseline_route,
                   total_time |-> calculate_route_time(baseline_route, tm),
                   on_time_deliveries |->
                       calculate_on_time_deliveries(baseline_route, tm, tw)],
              optimized |->
                  [route |-> opt.result.route,
                   total_time |-> opt.result.total_time,
                   on_time_deliveries |-> opt.result.on_time_deliveries,
                   energy |-> opt.result.energy,
                   solver_type |-> opt.result.solver_type],
              improvement |->
                  [time_saved_minutes |-> comparison.time_saved,
                   improvement_percent |-> comparison.improvement_percent,
                   co2_savings_kg |-> calculate_co2_savings(comparison.time_saved),
                   fuel_savings_liters |-> calculate_fuel_savings(comparison.time_saved)],
              coordinates |-> coords,
              time_matrix |-> tm]]

\* the clock when the engine starts: a weekday night, a weekend morning peak
Clocks == {[minute |-> 200, day |-> 0], [minute |-> 500, day |-> 5]}

\* coords of a request: N places, the first one place 0
CoordLists(N) == {c \in [1..N -> 0..MaxPlace] : c[1] = 0}

Scenarios == {"normal", "peak", "incident", "storm"}

NoLib == [ok |-> FALSE, sample |-> <<>>]

\* LogisticsEngine(): the engine's solver is QuantumSolver('auto')
InitEngine ==
    \E dwave \in BOOLEAN, neal \in BOOLEAN, dimod \in BOOLEAN, c \in Clocks :
        /\ available_solvers = check_available_solvers(dwave, neal, dimod)
        /\ solver_type = "auto"
        /\ dimod_available = dimod
        /\ input = NoInput
        /\ problem = NoProblem
        /\ calls = <<>>
        /\ lib_outcome = "none"
        /\ result = NoResult
        /\ clock = c
        /\ EngineIdle

\* a faulty variant of the append: the record is put in front
append_result_front(history, res) == <<res>> \o history

\* self.optimization_history.append(result)
append_result(history, res) == Append(history, res)

\* engine.optimize_delivery_route(coords, scenario, time_windows) of N = len(coords)
\* coordinates, a minute after the call before; late = 1 when the clock has moved
\* on between the read of simulate_scenario and the read of add_incident
EngineRequest(N, coords, scenario, tw, late) ==
    \E sim \in {simulate_scenario(incidents, coords, scenario, clock,
                                  clock.minute + late)} :
        /\ ExactWindows(N, sim.time_matrix, tw)
        /\ \E lib \in (IF tw # <<>> /\ (\/ window_index_raises(N, tw)
                                        \/ time_window_raises(N, sim.time_matrix))
                       THEN {NoLib}
                       ELSE LibOutcomes(
                                build_time_dependent_tsp_qubo(N, sim.time_matrix, <<>>).Q,
                                dimod_available)) :
              \E opt \in {optimize_route(N, sim.time_matrix, tw, solver_type,
                                         available_solvers, lib)} :
                  \E out \in {delivery_result(coords, scenario, tw, sim, opt)} :
                      /\ input' = [N |-> N, tm |-> sim.time_matrix, tw |-> tw,
                                   coords |-> coords, scenario |-> scenario]
                      /\ problem' = Problem("tsp", opt.built)
                      /\ result' = opt.solve.res
                      /\ calls' = opt.solve.calls
                      /\ lib_outcome' = opt.solve.lib
                      /\ incidents' = sim.incidents
                      /\ optimizer_history' =
                             IF opt.status = "ok"
                             THEN Append(optimizer_history, opt.result)
                             ELSE optimizer_history
                      /\ optimization_history' =
                             IF out.status = "ok"
                             THEN append_result(optimization_history, out.value)
                             ELSE optimization_history
                      /\ record' = out
                      /\ clock' = [clock EXCEPT !.minute = @ + 1]

\* one request to the engine, of at most MaxCalls in a run
OptimizeDeliveryRoute ==
    \E N \in 2..EngMaxN :
        \E coords \in CoordLists(N), scenario \in Scenarios, tw \in WindowLists(N),
           late \in 0..1 :
            /\ \E c \in Clocks :
                   c.day = clock.day /\ clock.minute - c.minute \in 0..MaxCalls - 1
            /\ scenario \in {"normal", "peak"} => late = 0
            /\ EngineRequest(N, coords, scenario, tw, late)
            /\ UNCHANGED <<available_solvers, solver_type, dimod_available, call_vars>>

NextEngine == OptimizeDeliveryRoute

SpecEngine == InitEngine /\ [][NextEngine]_vars

----------------------------------------------------------------------------
(* qubo_builder.py: extract_solution, the VRP walk step by step *)

RECURSIVE SubsetsUpTo(_, _)
\* the subsets of V with at most k elements
SubsetsUpTo(V, k) ==
    IF k = 0 THEN {{}}
    ELSE LET prev == SubsetsUpTo(V, k - 1)
         IN prev \cup {S \cup {v} : S \in prev, v \in V}

Range(f) == {f[x] : x \in DOMAIN f}

\* the assignments given to the decoder: at most MaxActive variables or all of them
\* are 1, and the dict holds every variable (full) or only those that are 1
\* (partial; the empty dict is the partial assignment without ones)
DecoderInputs(var_index) ==
    {[v \in (IF partial THEN ones ELSE Range(var_index)) |-> IF v \in ones THEN 1 ELSE 0] :
        ones \in SubsetsUpTo(Range(var_index), MaxActive) \cup {Range(var_index)},
        partial \in BOOLEAN}

\* next_node = None
None == -1

\* vehicle_routes: per vehicle with an active edge, its active edges (i, j) in the
\* order var_index.items() yields them, which is the order of their indices
vehicle_routes(num_vehicles, solution, var_index) ==
    LET on(k) == {var_index[e] : e \in {e \in DOMAIN var_index :
                                          e[3] = k /\ Get(solution, var_index[e]) = 1}}
        key(idx) == CHOOSE e \in DOMAIN var_index : var_index[e] = idx
        edges(k) == LET idxs == SortedSeq(on(k))
                    IN [n \in 1..Len(idxs) |-> <<key(idxs[n])[1], key(idxs[n])[2]>>]
    IN [k \in {k \in 0..num_vehicles - 1 : on(k) # {}} |-> edges(k)]

\* for i, j in route_edges: if i == current: next_node = j; break
next_node(route_edges, current) ==
    LET hits == {n \in 1..Len(route_edges) : route_edges[n][1] = current}
    IN IF hits = {} THEN None ELSE route_edges[MinOf(hits)][2]

\* a faulty variant of extract_solution: only 'tsp' is dispatched
extract_solution_tsp_only(N, num_vehicles, solution, var_index, problem_type) ==
    IF problem_type = "tsp"
    THEN [pc |-> "done", status |-> "ok",
          value |-> extract_tsp_solution(N, solution, var_index)]
    ELSE [pc |-> "done", status |-> "raised", value |-> <<>>]

\* extract_solution: the TSP decode, the VRP decode up to its for loop, or ValueError
extract_solution(N, num_vehicles, solution, var_index, problem_type) ==
    IF problem_type = "tsp"
    THEN [pc |-> "done", status |-> "ok",
          value |-> extract_tsp_solution(N, solution, var_index)]
    ELSE IF problem_type = "vrp"
    THEN [pc |-> "for", status |-> "none", value |-> <<>>]
    ELSE [pc |-> "done", status |-> "raised", value |-> <<>>]

ProblemTypes == {"tsp", "vrp", "other"}

InitDecode ==
    /\ available_solvers = <<"greedy">>
    /\ solver_type = "auto"
    /\ dimod_available = FALSE
    /\ input = NoInput
    /\ problem = NoProblem
    /\ calls = <<>>
    /\ lib_outcome = "none"
    /\ result = NoResult
    /\ clock = Midnight
    /\ EngineIdle

\* builder.extract_solution(solution, var_index, problem_type) with the var_index
\* the encoder of that problem type builds
ExtractSolution ==
    /\ call = NoCall
    /\ \E problem_type \in ProblemTypes, N \in 1..DecMaxN :
        \E num_vehicles \in (IF problem_type = "vrp" THEN 1..MaxVehicles ELSE {0}) :
          \E var_index \in {IF problem_type = "vrp" THEN vrp_var_index(N, num_vehicles)
                            ELSE tsp_var_index(N)} :
            \E solution \in DecoderInputs(var_index) :
              \E out \in {extract_solution(N, num_vehicles, solution, var_index,
                                           problem_type)} :
                 /\ call' = [op |-> "extract_solution",
                             problem_type |-> problem_type,
                             N |-> N,
                             num_vehicles |-> num_vehicles,
                             solution |-> solution,
                             pc |-> out.pc,
                             vehicle_routes |->
                                 IF out.pc = "for"
                                 THEN vehicle_routes(num_vehicles, solution, var_index)
                                 ELSE <<>>,
                             pending |->
                                 IF out.pc = "for"
                                 THEN SortedSeq(DOMAIN vehicle_routes(num_vehicles, solution,
                                                                      var_index))
                                 ELSE <<>>,
                             k |-> 0,
                             current |-> 0,
                             route |-> <<>>,
                             routes |-> <<>>]
                 /\ returned' = [status |-> out.status, value |-> out.value]
    /\ UNCHANGED <<available_solvers, solver_type, dimod_available, input, problem, calls,
                   lib_outcome, result, engine_vars>>

\* for k in sorted(vehicle_routes.keys()): current = 0; route = [current]; after the
\* last vehicle, return routes
NextVehicle ==
    /\ call.op = "extract_solution"
    /\ call.pc = "for"
    /\ IF call.pending = <<>>
       THEN /\ call' = [call EXCEPT !.pc = "done"]
            /\ returned' = [status |-> "ok", value |-> call.routes]
       ELSE /\ call' = [call EXCEPT !.pc = "while",
                                    !.k = Head(call.pending),
                                    !.pending = Tail(call.pending),
                                    !.current = 0,
                                    !.route = <<0>>]
            /\ UNCHANGED returned
    /\ UNCHANGED <<available_solvers, solver_type, dimod_available, input, problem, calls,
                   lib_outcome, result, engine_vars>>

\* one pass of "while True".  A walk that ends appends at most N - 1 nodes, so the
\* route is kept up to N + 1 nodes: a longer one belongs to a walk that has entered
\* a node twice
WalkStep ==
    /\ call.op = "extract_solution"
    /\ call.pc = "while"
    /\ \E next \in {next_node(call.vehicle_routes[call.k], call.current)} :
          IF next = None \/ next = 0
          THEN call' = [call EXCEPT !.pc = "for",
                                    !.routes = IF Len(call.route) > 1
                                               THEN Append(@, call.route) ELSE @]
          ELSE call' = [call EXCEPT !.current = next,
                                    !.route = IF Len(@) > call.N THEN @
                                              ELSE Append(@, next)]
    /\ UNCHANGED <<available_solvers, solver_type, dimod_available, input, problem, calls,
                   lib_outcome, result, engine_vars, returned>>

NextDecode == ExtractSolution \/ NextVehicle \/ WalkStep

\* the interpreter runs a loop it has entered: a pass that can be taken is taken
SpecDecode ==
    InitDecode /\ [][NextDecode]_vars /\ WF_vars(NextVehicle) /\ WF_vars(WalkStep)

----------------------------------------------------------------------------
(* quantum_solver.py: RouteOptimizer.optimize_route on its own *)

\* what the sampler library does in optimize_route: it raises, or it returns a
\* sample with at most PipeMaxOnes variables set to 1
PipelineOutcomes(Q, dimod) ==
    {[ok |-> FALSE, sample |-> <<>>]}
    \cup (IF dimod
          THEN UNION {{[ok |-> TRUE, sample |-> [v \in V |-> IF v \in S THEN 1 ELSE 0]] :
                          S \in SubsetsUpTo(V, PipeMaxOnes)} : V \in {VariablesOf(Q)}}
          ELSE {})

\* RouteOptimizer(): a QuantumSolver('auto') and an empty history
InitPipeline ==
    \E dwave \in BOOLEAN, neal \in BOOLEAN, dimod \in BOOLEAN :
        /\ available_solvers = check_available_solvers(dwave, neal, dimod)
        /\ solver_type = "auto"
        /\ dimod_available = dimod
        /\ input = NoInput
        /\ problem = NoProblem
        /\ calls = <<>>
        /\ lib_outcome = "none"
        /\ result = NoResult
        /\ clock = Midnight
        /\ EngineIdle

\* optimizer.optimize_route(time_matrix, time_windows, 'tsp')
OptimizeRoute ==
    /\ call = NoCall
    /\ \E N \in 1..MaxN :
        \E tm \in Matrices(N, MaxEdges, MaxTime), tw \in WindowLists(N) :
            /\ ExactWindows(N, tm, tw)
            /\ \E lib \in (IF tw # <<>> /\ time_window_raises(N, tm)
                           THEN {NoLib}
                           ELSE PipelineOutcomes(
                                    build_time_dependent_tsp_qubo(N, tm, <<>>).Q,
                                    dimod_available)) :
                  \E opt \in {optimize_route(N, tm, tw, solver_type, available_solvers,
                                             lib)} :
                      /\ input' = [N |-> N, tm |-> tm, tw |-> tw]
                      /\ problem' = Problem("tsp", opt.built)
                      /\ result' = opt.solve.res
                      /\ calls' = opt.solve.calls
                      /\ lib_outcome' = opt.solve.lib
                      /\ optimizer_history' =
                             IF opt.status = "ok" THEN Append(optimizer_history, opt.result)
                             ELSE optimizer_history
                      /\ call' = [op |-> "optimize_route"]
                      /\ returned' = [status |-> opt.status, value |-> opt.result]
    /\ UNCHANGED <<available_solvers, solver_type, dimod_available, clock, incidents,
                   optimization_history, record>>

NextPipeline == OptimizeRoute

SpecPipeline == InitPipeline /\ [][NextPipeline]_vars

----------------------------------------------------------------------------
(* solver_simple.py: the route functions of SimpleRouteOptimizer *)

RECURSIVE simple_nearest_loop(_, _, _)
\* the while loop of SimpleRouteOptimizer.nearest_neighbor
simple_nearest_loop(tm, route, unvisited) ==
    IF unvisited = {} THEN route
    ELSE LET current == route[Len(route)]
             best == MinOf({tm[current][x] : x \in unvisited})
             nearest == MinOf({x \in unvisited : tm[current][x] = best})
         IN simple_nearest_loop(tm, Append(route, nearest), unvisited \ {nearest})

\* SimpleRouteOptimizer.nearest_neighbor
nearest_neighbor(N, tm) == simple_nearest_loop(tm, <<0>>, 1..N - 1)

\* SimpleRouteOptimizer.calculate_route_time
simple_calculate_route_time(route, tm) ==
    IF Len(route) < 2 THEN 0
    ELSE SumOver(1..Len(route) - 1, [i \in 1..Len(route) - 1 |-> tm[route[i]][route[i + 1]]])
         + (IF route[Len(route)] # 0 THEN tm[route[Len(route)]][0] ELSE 0)

----------------------------------------------------------------------------
(* The route functions applied to matrices and routes *)

\* the routes over the nodes of an N x N matrix, with at most N nodes; a node may
\* occur more than once, as in a decoded route
Routes(N) == UNION {[1..L -> 0..N - 1] : L \in 0..N}

Classes == {"RouteOptimizer", "SimpleRouteOptimizer"}

\* a RouteOptimizer and the time matrix its callers hold
InitRoute ==
    \E N \in 1..RtMaxN :
        \E tm \in Matrices(N, RtMaxEdges, RtMaxTime) :
            /\ available_solvers = <<"greedy">>
            /\ solver_type = "auto"
            /\ dimod_available = FALSE
            /\ input = [N |-> N, tm |-> tm, tw |-> <<>>]
            /\ problem = NoProblem
            /\ calls = <<>>
            /\ lib_outcome = "none"
            /\ result = NoResult
            /\ clock = Midnight
            /\ EngineIdle

\* optimizer._calculate_route_time(route, time_matrix), or calculate_route_time
\* of the simplified optimizer
CalculateRouteTime ==
    /\ call = NoCall
    /\ \E cls \in Classes, route \in Routes(input.N) :
          /\ call' = [op |-> "calculate_route_time", cls |-> cls, N |-> input.N,
                      tm |-> input.tm, route |-> route]
          /\ returned' = [status |-> "ok",
                          value |-> IF cls = "RouteOptimizer"
                                    THEN calculate_route_time(route, input.tm)
                                    ELSE simple_calculate_route_time(route, input.tm)]
    /\ UNCHANGED <<available_solvers, solver_type, dimod_available, input, problem, calls,
                   lib_outcome, result, engine_vars>>

\* create_baseline_route(time_matrix), or nearest_neighbor of the simplified
\* optimizer
CreateBaselineRoute ==
    /\ call = NoCall
    /\ \E cls \in Classes :
          /\ call' = [op |-> "create_baseline_route", cls |-> cls, N |-> input.N,
                      tm |-> input.tm, route |-> <<>>]
          /\ returned' = [status |-> "ok",
                          value |-> IF cls = "RouteOptimizer"
                                    THEN create_baseline_route(input.N, input.tm)
                                    ELSE nearest_neighbor(input.N, input.tm)]
    /\ UNCHANGED <<available_solvers, solver_type, dimod_available, input, problem, calls,
                   lib_outcome, result, engine_vars>>

NextRoute == CalculateRouteTime \/ CreateBaselineRoute

SpecRoute == InitRoute /\ [][NextRoute]_vars

----------------------------------------------------------------------------
(* The route metrics applied to matrices, routes and time windows *)

\* windows in the range of the travel times of the model, and the working day
MetricWindowChoices == {<<0, 0>>, <<1, 2>>, <<0, 480>>}

\* time_windows: None (<<>>) or one window per node
MetricWindowLists(N) == {<<>>} \cup [1..N -> MetricWindowChoices]

\* optimizer.compare_with_baseline(time_matrix, baseline_route, optimized_route)
CompareWithBaseline ==
    /\ call = NoCall
    /\ \E baseline_route \in Routes(input.N), optimized_route \in Routes(input.N) :
          /\ call' = [op |-> "compare_with_baseline", N |-> input.N, tm |-> input.tm,
                      baseline_route |-> baseline_route,
                      optimized_route |-> optimized_route]
          /\ returned' = compare_with_baseline(input.tm, baseline_route, optimized_route)
    /\ UNCHANGED <<available_solvers, solver_type, dimod_available, input, problem, calls,
                   lib_outcome, result, engine_vars>>

\* optimizer._calculate_on_time_deliveries(route, time_matrix, time_windows)
CalculateOnTimeDeliveries ==
    /\ call = NoCall
    /\ \E route \in Routes(input.N), tw \in MetricWindowLists(input.N) :
          /\ call' = [op |-> "calculate_on_time_deliveries", N |-> input.N,
                      tm |-> input.tm, route |-> route, tw |-> tw]
          /\ returned' = [status |-> "ok",
                          value |-> calculate_on_time_deliveries(route, input.tm, tw)]
    /\ UNCHANGED <<available_solvers, solver_type, dimod_available, input, problem, calls,
                   lib_outcome, result, engine_vars>>

NextMetrics == CompareWithBaseline \/ CalculateOnTimeDeliveries

SpecMetrics == InitRoute /\ [][NextMetrics]_vars

----------------------------------------------------------------------------
(* traffic_simulator.py: one TrafficSimulator and the calls made on it *)

\* coords of a call on the simulator: any list of places, the empty one included
SimCoordLists == UNION {[1..N -> 0..MaxPlace] : N \in 0..SimMaxN}

\* edge ids "i-j" a caller registers an incident on
EdgeIds == {<<0, 1>>, <<1, 0>>, <<1, 2>>}

\* incident types: two of the table of predict_incident_impact and one that is not
IncidentTypes == {"accident", "road_closure", "flood"}

\* severity values over 10: add_incident takes any float
Severities == {-10, 10, 20}

Weathers == {"clear", "storm"}

\* TrafficSimulator(): no incident is registered
InitSim ==
    \E c \in Clocks :
        /\ available_solvers = <<"greedy">>
        /\ solver_type = "auto"
        /\ dimod_available = FALSE
        /\ input = NoInput
        /\ problem = NoProblem
        /\ calls = <<>>
        /\ lib_outcome = "none"
        /\ result = NoResult
        /\ clock = c
        /\ EngineIdle

\* at most SimMaxCalls calls are made on the simulator, one a minute
SimCallsLeft ==
    \E c \in Clocks : c.day = clock.day /\ clock.minute - c.minute \in 0..SimMaxCalls - 1

\* the operations called on the simulator before the one that is being made
Earlier == IF call = NoCall THEN <<>> ELSE Append(call.earlier, call.op)

\* simulator.add_incident(edge_id, incident_type, severity): start_time is the
\* clock the call reads
AddIncident ==
    /\ SimCallsLeft
    /\ \E edge_id \in EdgeIds, incident_type \in IncidentTypes, severity \in Severities :
          /\ call' = [op |-> "add_incident", edge_id |-> edge_id,
                      incident_type |-> incident_type, severity |-> severity,
                      now |-> clock, before |-> incidents, earlier |-> Earlier]
          /\ incidents' = add_incident(incidents, edge_id, incident_type, severity,
                                       clock.minute)
          /\ returned' = [status |-> "ok", value |-> <<>>]
    /\ clock' = [clock EXCEPT !.minute = @ + 1]
    /\ UNCHANGED <<available_solvers, solver_type, dimod_available, input, problem, calls,
                   lib_outcome, result, optimizer_history, optimization_history, record>>

\* simulator.compute_travel_time_matrix(coords, weather=weather): current_time is
\* the clock the call reads
ComputeTravelTimeMatrix ==
    /\ SimCallsLeft
    /\ \E coords \in SimCoordLists, weather \in Weathers :
          /\ call' = [op |-> "compute_travel_time_matrix", coords |-> coords,
                      weather |-> weather, now |-> clock, before |-> incidents,
                      earlier |-> Earlier]
          /\ returned' = [status |-> "ok",
                          value |-> [time_matrix |->
                              compute_travel_time_matrix(incidents, coords, clock.minute,
                                                         clock.day, weather)]]
    /\ clock' = [clock EXCEPT !.minute = @ + 1]
    /\ UNCHANGED <<available_solvers, solver_type, dimod_available, input, problem, calls,
                   lib_outcome, result, incidents, optimizer_history, optimization_history,
                   record>>

\* simulator.simulate_scenario(coords, scenario); late = 1 when the clock has moved
\* on between the read of simulate_scenario and the read of add_incident
SimulateScenario ==
    /\ SimCallsLeft
    /\ \E coords \in SimCoordLists, scenario \in Scenarios, late \in 0..1 :
          /\ scenario \in {"normal", "peak"} => late = 0
          /\ \E sim \in {simulate_scenario(incidents, coords, scenario, clock,
                                            clock.minute + late)} :
                /\ call' = [op |-> "simulate_scenario", coords |-> coords,
                            scenario |-> scenario, now |-> clock, late |-> late,
                            before |-> incidents, earlier |-> Earlier]
                /\ incidents' = sim.incidents
                /\ returned' = [status |-> "ok", value |-> sim]
    /\ clock' = [clock EXCEPT !.minute = @ + 1]
    /\ UNCHANGED <<available_solvers, solver_type, dimod_available, input, problem, calls,
                   lib_outcome, result, optimizer_history, optimization_history, record>>

NextSim == AddIncident \/ ComputeTravelTimeMatrix \/ SimulateScenario

SpecSim == InitSim /\ [][NextSim]_vars

----------------------------------------------------------------------------
(* solver.py: the endpoint /api/optimize in front of the engine *)

\* the places of a request body: those of the engine's requests and place 9,
\* whose latitude 9 * 11.24 = 101 degrees is out of range
ApiPlaces == 0..MaxPlace \cup {9}

\* data.get('coordinates', []): any list, the empty one included
ApiCoordLists == UNION {[1..N -> ApiPlaces] : N \in 0..EngMaxN}

\* data.get('time_windows', None): None (<<>>) or a list of any length
ApiWindowLists == {<<>>} \cup {[i \in 1..L |-> <<0, 480>>] : L \in 1..EngMaxN + 1}

\* the response of the endpoint: the HTTP status and the engine's record
Response(status, out) == [status |-> status, out |-> out]

\* optimize_route(): the request handler of /api/optimize, on the global engine
ApiOptimizeRoute ==
    /\ call = NoCall
    /\ \E coords \in ApiCoordLists, scenario \in Scenarios, tw \in ApiWindowLists,
          late \in 0..1 :
          /\ scenario \in {"normal", "peak"} => late = 0
          /\ call' = [op |-> "api_optimize", coords |-> coords, scenario |-> scenario,
                      tw |-> tw, incidents |-> incidents,
                      history |-> optimization_history]
          /\ IF Len(coords) = 0 \/ Len(coords) < 2
             THEN /\ late = 0
                  /\ returned' = Response(400, NoRecord)
                  /\ UNCHANGED <<input, problem, calls, lib_outcome, result, engine_vars>>
             ELSE /\ EngineRequest(Len(coords), coords, scenario, tw, late)
                  /\ returned' = Response(IF record'.status = "ok" THEN 200 ELSE 500,
                                          record')
    /\ UNCHANGED <<available_solvers, solver_type, dimod_available>>

NextApi == ApiOptimizeRoute

SpecApi == InitEngine /\ [][NextApi]_vars

----------------------------------------------------------------------------
(* solver.py: the engine's history over optimizations, reads and clears *)

\* the scenarios of the requests made while the history is watched; every
\* request is for two places a leg apart
HistScenarios == {"normal", "incident"}

\* LogisticsEngine() on a machine without the D-Wave cloud client, at midnight
InitHistory ==
    \E neal \in BOOLEAN, dimod \in BOOLEAN :
        /\ available_solvers = check_available_solvers(FALSE, neal, dimod)
        /\ solver_type = "auto"
        /\ dimod_available = dimod
        /\ input = NoInput
        /\ problem = NoProblem
        /\ calls = <<>>
        /\ lib_outcome = "none"
        /\ result = NoResult
        /\ clock = Midnight
        /\ EngineIdle

\* engine.optimize_delivery_route(coords, scenario): one of at most HistMaxCalls
\* requests, without time windows
HistOptimize ==
    /\ clock.minute - Midnight.minute \in 0..HistMaxCalls - 1
    /\ \E coords \in {<<0, 1>>}, scenario \in HistScenarios :
          /\ EngineRequest(2, coords, scenario, <<>>, 0)
          /\ call' = [op |-> "optimize_delivery_route", coords |-> coords,
                      scenario |-> scenario]
          /\ returned' = record'
    /\ UNCHANGED <<available_solvers, solver_type, dimod_available>>

\* engine.get_optimization_history(): the list itself is returned
GetOptimizationHistory ==
    /\ call' = [op |-> "get_optimization_history"]
    /\ returned' = [status |-> "ok", value |-> optimization_history]
    /\ UNCHANGED <<available_solvers, solver_type, dimod_available, input, problem, calls,
                   lib_outcome, result, engine_vars>>

\* engine.clear_history(): self.optimization_history = []
ClearHistory ==
    /\ call' = [op |-> "clear_history"]
    /\ returned' = [status |-> "ok", value |-> <<>>]
    /\ optimization_history' = <<>>
    /\ UNCHANGED <<available_solvers, solver_type, dimod_available, input, problem, calls,
                   lib_outcome, result, clock, incidents, optimizer_history, record>>

NextHistory == HistOptimize \/ GetOptimizationHistory \/ ClearHistory

SpecHistory == InitHistory /\ [][NextHistory]_vars

----------------------------------------------------------------------------
(* solver.py: two requests served at the same time by the global engine *)

\* the two request handlers that run at the same time
Requests == {1, 2}

\* the scenarios of the two requests; both are for two places a leg apart
ConcScenarios == {"normal", "storm"}

\* the global engine with a sampler installed, no request begun; call[r] is the
\* position of handler r and returned[r] what it returned
InitConc ==
    /\ available_solvers = check_available_solvers(FALSE, TRUE, TRUE)
    /\ solver_type = "auto"
    /\ dimod_available = TRUE
    /\ input = NoInput
    /\ problem = NoProblem
    /\ calls = <<>>
    /\ lib_outcome = "none"
    /\ result = NoResult
    /\ clock = Midnight
    /\ incidents = <<>>
    /\ optimizer_history = <<>>
    /\ optimization_history = <<>>
    /\ record = NoRecord
    /\ call = [r \in Requests |-> [pc |-> "idle"]]
    /\ returned = [r \in Requests |-> NoReturn]

\* time passes while the handlers run
Tick ==
    /\ clock.minute - Midnight.minute < ConcMaxTicks
    /\ \E r \in Requests : call[r].pc \in {"read", "registered"}
    /\ clock' = [clock EXCEPT !.minute = @ + 1]
    /\ UNCHANGED <<available_solvers, solver_type, dimod_available, input, problem, calls,
                   lib_outcome, result, incidents, optimizer_history, optimization_history,
                   record, call_vars>>

\* handler r enters simulate_scenario: current_time = datetime.now(); the handler
\* that begins first is numbered 1
Begin(r) ==
    /\ call[r].pc = "idle"
    /\ \A q \in Requests : q < r => call[q].pc # "idle"
    /\ \E scenario \in ConcScenarios :
          call' = [call EXCEPT ![r] = [pc |-> "read", coords |-> <<0, 1>>,
                                       scenario |-> scenario, now |-> clock]]
    /\ UNCHANGED <<available_solvers, solver_type, dimod_available, input, problem, calls,
                   lib_outcome, result, engine_vars, returned>>

\* handler r runs the branch of its scenario: the add_incident calls read the
\* clock and write self.incidents of the one simulator
Register(r) ==
    /\ call[r].pc = "read"
    /\ incidents' = simulate_scenario(incidents, call[r].coords, call[r].scenario,
                                      call[r].now, clock.minute).incidents
    /\ call' = [call EXCEPT ![r] = [@ EXCEPT !.pc = "registered"] @@
                                   [started |-> clock.minute]]
    /\ UNCHANGED <<available_solvers, solver_type, dimod_available, input, problem, calls,
                   lib_outcome, result, clock, optimizer_history, optimization_history,
                   record, returned>>

\* what simulate_scenario returns to handler r when compute_travel_time_matrix
\* reads the registry as it is now
SimulatedNow(r, registry) ==
    LET alone == simulate_scenario(<<>>, call[r].coords, call[r].scenario, call[r].now,
                                   call[r].started)
    IN [time_matrix |-> compute_travel_time_matrix(registry, call[r].coords,
                                                   alone.current_time, call[r].now.day,
                                                   alone.weather),
        scenario |-> alone.scenario,
        weather |-> alone.weather,
        current_time |-> alone.current_time,
        incidents |-> registry]

\* RouteOptimizer.optimize_route on the matrix of sim, the sampler answering lib
RequestOptimized(r, sim, lib) ==
    optimize_route(Len(call[r].coords), sim.time_matrix, <<>>, solver_type,
                   available_solvers, lib)

\* handler r computes the matrix from self.incidents, optimizes, appends its
\* record to the history and returns; alone is what the same call returns on an
\* engine that serves no other request
Finish(r) ==
    /\ call[r].pc = "registered"
    /\ \E sim \in {SimulatedNow(r, incidents)},
          quiet \in {simulate_scenario(<<>>, call[r].coords, call[r].scenario, call[r].now,
                                       call[r].started)} :
          \E lib \in LibOutcomes(
                         build_time_dependent_tsp_qubo(Len(call[r].coords), sim.time_matrix,
                                                       <<>>).Q, dimod_available) :
              \E served \in {[s \in {sim, quiet} |->
                                 delivery_result(call[r].coords, call[r].scenario, <<>>, s,
                                                 RequestOptimized(r, s, lib))]} :
                  /\ returned' = [returned EXCEPT ![r] =
                         [status |-> served[sim].status, out |-> served[sim],
                          alone |-> served[quiet]]]
                  /\ optimization_history' =
                         IF served[sim].status = "ok"
                         THEN append_result(optimization_history, served[sim].value)
                         ELSE optimization_history
                  /\ record' = served[sim]
    /\ call' = [call EXCEPT ![r] = [@ EXCEPT !.pc = "done"]]
    /\ UNCHANGED <<available_solvers, solver_type, dimod_available, input, problem, calls,
                   lib_outcome, result, clock, incidents, optimizer_history>>

NextConc == Tick \/ \E r \in Requests : Begin(r) \/ Register(r) \/ Finish(r)

SpecConc == InitConc /\ [][NextConc]_vars

----------------------------------------------------------------------------
(* solver_simple.py: SimpleRouteOptimizer.optimize_route *)

\* new_route[i:j] = reversed(new_route[i:j]); route[k] is route[k + 1]
reverse_slice(route, i, j) ==
    [n \in 1..Len(route) |->
        IF i <= n - 1 /\ n - 1 < j THEN route[i + j - (n - 1)] ELSE route[n]]

\* the (i, j) of the two loops of a 2-opt round, in the order they are tried
two_opt_swaps(L) ==
    ConcatFor(L, LAMBDA i :
        ConcatFor(L, LAMBDA j :
            IF 1 <= i /\ i < L - 2 /\ i + 2 <= j THEN << <<i, j>> >> ELSE <<>>))

\* one round of the 2-opt loop: the first swap that saves more than 0.1 minutes
\* is taken, and with whole minutes that is every swap that saves time
two_opt_round(best_route, tm) ==
    LET swaps == two_opt_swaps(Len(best_route))
        better == {n \in 1..Len(swaps) :
                      simple_calculate_route_time(
                          reverse_slice(best_route, swaps[n][1], swaps[n][2]), tm)
                      < simple_calculate_route_time(best_route, tm)}
    IN IF better = {} THEN best_route
       ELSE reverse_slice(best_route, swaps[MinOf(better)][1], swaps[MinOf(better)][2])

RECURSIVE two_opt_rounds(_, _, _)
\* "for _ in range(10)": a round that finds no swap leaves the route to the
\* rounds after it as it is, and they find none either
two_opt_rounds(best_route, tm, rounds) ==
    IF rounds = 0 \/ two_opt_round(best_route, tm) = best_route THEN best_route
    ELSE two_opt_rounds(two_opt_round(best_route, tm), tm, rounds - 1)

\* two_opt_improvement
two_opt_improvement(route, tm) ==
    IF Len(route) <= 3 THEN route ELSE two_opt_rounds(route, tm, 10)

\* random_route: random.shuffle works on the copy route[1:], so the route is left
\* in the order [0, 1, ..., n - 1]
random_route(N) == [n \in 1..N |-> n - 1]

\* the strategies multi_strategy_optimize tries, in order: the nearest-neighbour
\* route, its 2-opt improvement and, for more than 3 nodes, the 2-opt improvement
\* of random_route
strategy_routes(nn_route, N, tm) ==
    <<nn_route, two_opt_improvement(nn_route, tm)>>
    \o (IF N > 3 THEN <<two_opt_improvement(random_route(N), tm)>> ELSE <<>>)

\* min(strategies, key=self.calculate_route_time): the first of the strategies
\* with the least time
min_route_time(strategies, tm) ==
    LET times == [n \in 1..Len(strategies) |->
                     simple_calculate_route_time(strategies[n], tm)]
        least == MinOf({times[n] : n \in 1..Len(strategies)})
    IN strategies[MinOf({n \in 1..Len(strategies) : times[n] = least})]

\* multi_strategy_optimize
multi_strategy_optimize(N, tm) ==
    min_route_time(strategy_routes(nearest_neighbor(N, tm), N, tm), tm)

\* the improvement part of the record, numbers as fractions num / den:
\* improvement_percent is floored at 5.0 and time_saved is that share of the
\* baseline time.  A numpy 0 / 0 is nan, and max(nan, 5.0) is nan
simple_improvement(baseline_time, optimized_time) ==
    LET improvement_percent ==
            IF baseline_time = 0 THEN [kind |-> "nan", num |-> 0, den |-> 0]
            ELSE IF (baseline_time - optimized_time) * 100 >= 5 * baseline_time
            THEN [kind |-> "number", num |-> (baseline_time - optimized_time) * 100,
                  den |-> baseline_time]
            ELSE [kind |-> "number", num |-> 5, den |-> 1]
        time_saved ==
            IF improvement_percent.kind = "nan" THEN improvement_percent
            ELSE [kind |-> "number", num |-> baseline_time * improvement_percent.num,
                  den |-> improvement_percent.den * 100]
    IN [time_saved_minutes |-> time_saved, improvement_percent |-> improvement_percent]

\* the record optimize_route returns for the two routes and their times.  A route
\* of one node costs the Python float 0.0, and 0.0 / 0.0 raises
simple_record(baseline_route, baseline_time, optimized_route, optimized_time) ==
    IF Len(baseline_route) < 2 THEN [status |-> "raised"]
    ELSE [status |-> "ok",
          value |-> [success |-> TRUE,
                     baseline |-> [route |-> baseline_route,
                                   total_time |-> baseline_time],
                     optimized |-> [route |-> optimized_route,
                                    total_time |-> optimized_time,
                                    solver_type |-> "simplified_2opt"],
                     improvement |-> simple_improvement(baseline_time, optimized_time)]]

\* SimpleRouteOptimizer.optimize_route
simple_optimize_route(N, tm) ==
    LET baseline_route == nearest_neighbor(N, tm)
        optimized_route == multi_strategy_optimize(N, tm)
    IN simple_record(baseline_route, simple_calculate_route_time(baseline_route, tm),
                     optimized_route, simple_calculate_route_time(optimized_route, tm))

\* a SimpleRouteOptimizer and the time matrix its caller holds
InitSimple ==
    \E N \in 1..SimpleMaxN :
        \E tm \in Matrices(N, SimpleMaxEdges, SimpleMaxTime) :
            /\ available_solvers = <<"greedy">>
            /\ solver_type = "auto"
            /\ dimod_available = FALSE
            /\ input = [N |-> N, tm |-> tm, tw |-> <<>>]
            /\ problem = NoProblem
            /\ calls = <<>>
            /\ lib_outcome = "none"
            /\ result = NoResult
            /\ clock = Midnight
            /\ EngineIdle

\* route_optimizer.optimize_route(time_matrix)
SimpleOptimizeRoute ==
    /\ call = NoCall
    /\ \E out \in {simple_optimize_route(input.N, input.tm)} :
          /\ call' = [op |-> "simple_optimize_route", N |-> input.N, tm |-> input.tm]
          /\ returned' = out
          /\ optimizer_history' = IF out.status = "ok"
                                  THEN Append(optimizer_history, out.value)
                                  ELSE optimizer_history
    /\ UNCHANGED <<available_solvers, solver_type, dimod_available, input, problem, calls,
                   lib_outcome, result, clock, incidents, optimization_history, record>>

NextSimple == SimpleOptimizeRoute

SpecSimple == InitSimple /\ [][NextSimple]_vars

----------------------------------------------------------------------------
(* Reference definitions the properties are stated with *)

\* the QUBO objective of assignment x: the diagonal coefficients of the variables
\* set to 1, the off-diagonal coefficients with both variables 1, and the offset
EvalQubo(Q, x) ==
    LET pairs == {k \in DOMAIN Q : Len(k) = 2}
        on == {k \in pairs : Get(x, k[1]) = 1 /\ Get(x, k[2]) = 1}
    IN SumOver(on, Q) + (IF CONST_KEY \in DOMAIN Q THEN Q[CONST_KEY] ELSE 0)

\* the chain, highest quality first
Priority == <<"dwave_hybrid", "dwave_qpu", "neal", "dimod_exact", "greedy">>

\* the first entry of Priority that is in the list
BestOf(available) ==
    Priority[CHOOSE n \in 1..Len(Priority) :
                /\ In(Priority[n], available)
                /\ \A m \in 1..n - 1 : ~In(Priority[m], available)]

Solved == result.status # "none"
FromEncoder == problem.origin \in {"tsp", "vrp"}
GreedyRan == calls # <<>> /\ calls[Len(calls)] = "greedy"

----------------------------------------------------------------------------
(* Properties of the solver chain, checked under Spec *)

\* C1: for every QUBO built by the TSP or VRP encoder and every availability and
\* failure of the backends, solve_qubo returns (assignment, energy, time) and
\* raises nothing.  The code violates it: the greedy solver unpacks every key of Q
\* as a pair and the encoder's Q holds the key ('const',).
C1_SolveNeverRaises == (FromEncoder /\ Solved) => result.status = "ok"

\* a request to the engine has been served
Requested == record.status # "none"

\* at least 2 coordinates and, if given, one time window per coordinate
ValidRequest ==
    /\ Len(input.coords) >= 2
    /\ input.tw = <<>> \/ Len(input.tw) = Len(input.coords)

\* C2 (checked under SpecEngine): for every request with at least 2 coordinates,
\* coinciding ones included, and, if given, one time window per coordinate,
\* optimize_delivery_route returns a record with its baseline, optimized and
\* improvement parts and raises nothing.  The code violates it: with time windows
\* and coinciding coordinates the encoder takes np.min of an empty selection, and
\* whenever the greedy solver runs it raises on the key ('const',) (see C1).
C2_PipelineReturnsRecord ==
    (Requested /\ ValidRequest) =>
        /\ record.status = "ok"
        /\ {"baseline", "optimized", "improvement"} \subseteq DOMAIN record.value

\* C3: when the dispatched non-greedy backend fails, solve_qubo enters that backend
\* once and no other non-greedy backend, then the greedy solver, and what it
\* returns (or raises) is what the greedy solver gives on the same Q.
C3_SingleFallback ==
    lib_outcome = "raised" =>
        /\ Len(calls) = 2
        /\ calls[1] # "greedy"
        /\ calls[2] = "greedy"
        /\ result = solve_greedy(problem.Q, problem.var_index)

C3_Witness ==
    /\ lib_outcome = "raised"
    /\ calls = <<"neal", "greedy">>
    /\ result.status = "ok"
    /\ \E v \in DOMAIN result.solution : result.solution[v] = 1

\* C4: in auto mode the backend entered is the highest-priority one in the
\* available list; in explicit mode it is the requested one if that is in the
\* list and greedy otherwise, also for an unknown name.
C4_Selection ==
    Solved =>
        calls[1] = IF solver_type = "auto" THEN BestOf(available_solvers)
                   ELSE IF In(solver_type, available_solvers) THEN solver_type
                   ELSE "greedy"

C4_Witness ==
    /\ Solved
    /\ solver_type = "auto"
    /\ In("dimod_exact", available_solvers)
    /\ calls[1] = "neal"

\* C5: with every non-greedy backend unavailable, solve_qubo in any mode goes
\* straight to the greedy solver and gives what greedy gives on the same Q.
C5_GreedyOnly ==
    (available_solvers = <<"greedy">> /\ Solved) =>
        /\ calls = <<"greedy">>
        /\ result = solve_greedy(problem.Q, problem.var_index)

C5_Witness ==
    /\ available_solvers = <<"greedy">>
    /\ solver_type = "neal"
    /\ result.status = "ok"
    /\ \E v \in DOMAIN result.solution : result.solution[v] = 1

\* every variable index that appears in a key of Q
VarsInKeys(Q) == UNION {{k[n] : n \in 1..Len(k)} : k \in {k \in DOMAIN Q : Len(k) = 2}}

\* C6: the assignment the greedy solver returns has an entry for every variable
\* index in a key of Q.  The code violates it: it collects the variables of the
\* off-diagonal keys only, so a variable with just a diagonal term >= 0 is missing.
C6_GreedyCoversAllVariables ==
    (GreedyRan /\ result.status = "ok") => VarsInKeys(problem.Q) \subseteq DOMAIN result.solution

\* C7: the energy solve_qubo returns for an encoder-built Q is the objective
\* recomputed from (Q, assignment), the constant offset included.  The code
\* violates it: on the offset key the greedy solver raises and returns no energy.
C7_EnergyIsObjective ==
    (FromEncoder /\ GreedyRan) =>
        /\ result.status = "ok"
        /\ result.energy = EvalQubo(problem.Q, result.solution)

----------------------------------------------------------------------------
(* Properties of the encoder, checked under SpecEnc *)

TspBuilt == problem.origin = "tsp" /\ problem.status = "ok"

\* all assignments to the N * N variables of a TSP problem
Assignments(N) == [0..N * N - 1 -> {0, 1}]

Ones(x, group) == Cardinality({n \in 1..Len(group) : Get(x, group[n]) = 1})

\* the one-hot groups of the TSP encoding: the positions of a node, the nodes of
\* a position
NodeGroups(N, vi) == {[p \in 1..N |-> vi[<<i, p - 1>>]] : i \in 0..N - 1}
PositionGroups(N, vi) == {[i \in 1..N |-> vi[<<i - 1, p>>]] : p \in 0..N - 1}

\* each node at exactly one position and each position holding exactly one node
ValidOneHot(N, vi, x) ==
    \A g \in NodeGroups(N, vi) \cup PositionGroups(N, vi) : Ones(x, g) = 1

\* what the constraint terms alone contribute to the energy of x
PenaltyOf(N, vi, x) ==
    EvalQubo(ApplyUpdates(<<>>, tsp_node_constraints(N, vi)
                                \o tsp_position_constraints(N, vi)), x)

\* C8: the penalty of a one-hot group is 0 when exactly one of its variables is 1
\* and positive otherwise, so a valid one-hot TSP assignment has penalty 0.  The
\* code violates it: with diagonal -2*lambda a group contributes -lambda both for
\* one and for two variables set.
C8_OneHotPenalty ==
    TspBuilt =>
        LET N == input.N
            vi == problem.var_index
        IN /\ \A g \in NodeGroups(N, vi) \cup PositionGroups(N, vi) :
                  \A x \in [{g[n] : n \in 1..N} -> {0, 1}] :
                      LET pen == EvalQubo(ApplyUpdates(<<>>, one_hot_group(g)), x)
                      IN IF Ones(x, g) = 1 THEN pen = 0 ELSE pen > 0
           /\ \A x \in Assignments(N) : ValidOneHot(N, vi, x) => PenaltyOf(N, vi, x) = 0

SumEntries(N, tm) ==
    SumOver((0..N - 1) \X (0..N - 1), [e \in (0..N - 1) \X (0..N - 1) |-> tm[e[1]][e[2]]])

\* C9: without time windows and with lambda above the sum of the matrix entries,
\* no assignment that breaks a one-hot constraint has an energy as low as the
\* best valid tour.  The code violates it (through the penalty of C8).
C9_MinimaAreValid ==
    (TspBuilt /\ input.tw = <<>> /\ lambda_penalty > SumEntries(input.N, input.tm)) =>
        LET N == input.N
            vi == problem.var_index
            E == [x \in Assignments(N) |-> EvalQubo(problem.Q, x)]
            valid == {x \in Assignments(N) : ValidOneHot(N, vi, x)}
            best == MinOf({E[x] : x \in valid})
        IN \A x \in Assignments(N) \ valid : E[x] > best

\* C10: the TSP encoder makes exactly N * N variables, and var_index maps the
\* (node, position) pairs one-to-one onto 0 .. N * N - 1.
C10_VarIndexBijection ==
    TspBuilt =>
        LET N == input.N
            vi == problem.var_index
        IN /\ DOMAIN vi = (0..N - 1) \X (0..N - 1)
           /\ \A a \in DOMAIN vi, b \in DOMAIN vi : vi[a] = vi[b] => a = b
           /\ {vi[a] : a \in DOMAIN vi} = 0..N * N - 1
           /\ VarsInKeys(problem.Q) = 0..N * N - 1

C10_Witness ==
    /\ TspBuilt
    /\ input.N = 3
    /\ problem.var_index[<<2, 1>>] = 7
    /\ problem.var_index[<<1, 2>>] = 5

\* the assignment that places node r[p] at position p
TourAssignment(N, vi, r) ==
    [v \in 0..N * N - 1 |-> IF \E p \in 0..N - 1 : v = vi[<<r[p], p>>] THEN 1 ELSE 0]

\* the coefficients of Q on pairs of different variables that x sets both to 1
QuadraticPart(Q, x) ==
    SumOver({k \in DOMAIN Q : Len(k) = 2 /\ k[1] # k[2] /\ x[k[1]] = 1 /\ x[k[2]] = 1}, Q)

\* the cost of the closed cycle r[0], r[1], ..., r[N-1], r[0]
CycleCost(N, tm, r) ==
    SumOver(0..N - 1, [p \in 0..N - 1 |-> tm[r[p]][r[(p + 1) % N]]])

\* C28: for every permutation r of the N >= 2 nodes, the quadratic coefficients of
\* the encoded TSP whose two variables the assignment "node r[p] at position p"
\* sets to 1 add up to the cost of the closed cycle, the sum over p of
\* matrix[r[p]][r[(p+1) mod N]].
C28_ObjectiveIsCycleCost ==
    (TspBuilt /\ input.N >= 2) =>
        LET N == input.N
            vi == problem.var_index
        IN \A r \in Permutations(0..N - 1) :
               /\ ValidOneHot(N, vi, TourAssignment(N, vi, r))
               /\ QuadraticPart(problem.Q, TourAssignment(N, vi, r))
                      = CycleCost(N, input.tm, r)

\* a problem of 3 nodes is encoded whose only travel time is on the leg that
\* closes the tour 0, 1, 2
C28_Witness ==
    /\ TspBuilt
    /\ input.N = 3
    /\ input.tm[2][0] > 0
    /\ input.tm[0][2] = 0
    /\ QuadraticPart(problem.Q, TourAssignment(3, problem.var_index, [p \in 0..2 |-> p])) > 0

VrpBuilt == problem.origin = "vrp" /\ problem.status = "ok"

\* the demands list of the VRP problem that was built: every node has the same
DemandsOf(in) == [i \in 1..in.N |-> in.load[1]]

\* the QUBO of the same problem for vehicles that can carry every customer
Uncharged(in) ==
    build_vrp_qubo(in.N, in.tm, DemandsOf(in), total_demand(DemandsOf(in)) + 1,
                   in.load[3]).Q

\* what the capacity step has added to the coefficient of edge variable e
SurchargeOn(e) ==
    LET key == <<problem.var_index[e], problem.var_index[e]>>
    IN problem.Q[key] - Uncharged(input)[key]

\* the edge variables (i, j, k) of vehicle k
EdgesOf(k) == {e \in DOMAIN problem.var_index : e[3] = k}

\* C29: the capacity surcharge is applied per vehicle: a vehicle whose demand
\* exceeds the capacity carries one and the same positive surcharge on every one
\* of its edge variables (i, j, k), and no coefficient changes for a vehicle whose
\* demand does not exceed the capacity.  The code violates it: the surcharge is
\* left off the edges into the depot, (i, 0, k).
C29_SurchargePerVehicle ==
    VrpBuilt =>
        /\ DOMAIN problem.Q = DOMAIN Uncharged(input)
        /\ \A k \in 0..input.load[3] - 1 :
              IF total_demand(DemandsOf(input)) > input.load[2]
              THEN \E amount \in {SurchargeOn(e) : e \in EdgesOf(k)} :
                       /\ amount > 0
                       /\ \A e \in EdgesOf(k) : SurchargeOn(e) = amount
              ELSE \A e \in EdgesOf(k) : SurchargeOn(e) = 0

----------------------------------------------------------------------------
(* Properties of the decoder, checked under SpecDecode *)

Decoding(problem_type) == call.op = "extract_solution" /\ call.problem_type = problem_type

\* the nodes the assignment of the call sets at a position
ActiveNodes(pos) ==
    {node \in 0..call.N - 1 :
        Get(call.solution, tsp_var_index(call.N)[<<node, pos>>]) = 1}

\* the positions with exactly one active node, in increasing order
SinglePositions ==
    SortedSeq({pos \in 0..call.N - 1 : Cardinality(ActiveNodes(pos)) = 1})

\* C11: the TSP decode leaves out of the route every position with no active node
\* and every position with more than one active node; the nodes of the other
\* positions appear in increasing position order.  The code violates it: a position
\* with several active nodes stays in the route, with the node var_index yields
\* last (the highest one).
C11_TspDecodeSkipsAmbiguous ==
    (Decoding("tsp") /\ returned.status = "ok") =>
        returned.value = [n \in 1..Len(SinglePositions) |->
                             CHOOSE node \in ActiveNodes(SinglePositions[n]) : TRUE]

\* C12: extract_solution for 'tsp' or 'vrp' raises for no assignment over the
\* variable index: not for the empty one, a partial one, the all-ones one or one
\* that violates the one-hot constraints.
C12_DecodeNeverRaises ==
    (Decoding("tsp") \/ Decoding("vrp")) => returned.status # "raised"

\* the all-ones assignment of a 3-node VRP, which breaks every one-hot
\* constraint, was decoded into a route
C12_Witness ==
    /\ Decoding("vrp")
    /\ call.N = 3
    /\ DOMAIN call.solution = Range(vrp_var_index(3, call.num_vehicles))
    /\ \A v \in DOMAIN call.solution : call.solution[v] = 1
    /\ returned.status = "ok"
    /\ returned.value # <<>>

\* C13: the VRP decode returns for every assignment: every per-vehicle walk from
\* the depot stops, also when the active edges hold a cycle off the depot.  The
\* code violates it: the walk keeps no record of the nodes it has entered, so with
\* the edges 0->1, 1->2, 2->1 it alternates between 1 and 2 for ever.
C13_VrpDecodeTerminates ==
    Decoding("vrp") ~> (returned.status # "none")

----------------------------------------------------------------------------
(* Properties of the route pipeline, checked under SpecPipeline *)

\* C14: every non-empty route the pipeline returns as the optimized TSP route
\* begins at the depot, index 0.  The code violates it: the encoder has no term
\* that ties node 0 to position 0, and the decode lists the nodes by position, so
\* the sample with node 1 at position 0 and node 0 at position 1 is returned as
\* the route [1, 0].
C14_RouteStartsAtDepot ==
    (call.op = "optimize_route" /\ returned.status = "ok" /\ returned.value.route # <<>>)
        => returned.value.route[1] = 0

\* C26: the solver identity stored in the result record names the backend that
\* produced the returned assignment, the last one the chain entered.  The code
\* violates it: the record stores the configured solver_type, 'auto' for the
\* optimizer of the engine, whichever backend ran.
C26_SolverIdentityIsBackend ==
    (call.op = "optimize_route" /\ returned.status = "ok") =>
        /\ calls # <<>>
        /\ returned.value.solver_type = calls[Len(calls)]

----------------------------------------------------------------------------
(* Properties of the route functions, checked under SpecRoute *)

RECURSIVE Legs(_, _)
\* the matrix entries of the consecutive nodes of a route, added up
Legs(route, M) ==
    IF Len(route) < 2 THEN 0 ELSE M[route[1]][route[2]] + Legs(Tail(route), M)

CostCalled == call.op = "calculate_route_time" /\ returned.status = "ok"

\* C15: routeCost(route, matrix) is 0 for a route of fewer than 2 nodes; else the
\* sum of matrix[route[i]][route[i+1]] over consecutive nodes, plus matrix[last][0]
\* exactly when the last node is not the depot 0.
C15_RouteCost ==
    CostCalled =>
        returned.value =
            IF Len(call.route) < 2 THEN 0
            ELSE Legs(call.route, call.tm)
                 + (IF call.route[Len(call.route)] # 0
                    THEN call.tm[call.route[Len(call.route)]][0] ELSE 0)

\* a route of 3 nodes that ends away from the depot got a cost with a closing leg
C15_Witness ==
    /\ CostCalled
    /\ call.cls = "RouteOptimizer"
    /\ Len(call.route) = 3
    /\ call.route[3] # 0
    /\ call.tm[call.route[3]][0] > 0
    /\ returned.value > Legs(call.route, call.tm)

\* the relabellings of the nodes 0..N-1
Relabellings(N) == Permutations(0..N - 1)

\* the route with every node relabelled
RelabelRoute(route, p) == [i \in 1..Len(route) |-> p[route[i]]]

\* the matrix M' with M'[p[i]][p[j]] = M[i][j]
RelabelMatrix(M, p) ==
    LET inv(a) == CHOOSE i \in DOMAIN p : p[i] = a
    IN [a \in DOMAIN M |-> [b \in DOMAIN M |-> M[inv(a)][inv(b)]]]

\* the cost of the relabelled route on the relabelled matrix is the cost returned
SameCostUnder(p) ==
    calculate_route_time(RelabelRoute(call.route, p), RelabelMatrix(call.tm, p))
        = returned.value

\* C16 as stated: routeCost is invariant under every relabelling of the nodes,
\* those that move label 0 included.  It does not hold: the closing leg goes to the
\* node labelled 0, so with route [0, 1] and the labels 0 and 1 exchanged the
\* relabelled route [1, 0] ends at 0 and loses the leg back.
C16_RelabelAny ==
    (CostCalled /\ call.cls = "RouteOptimizer") =>
        \A p \in Relabellings(call.N) : SameCostUnder(p)

\* C16, amended: routeCost is invariant under every relabelling of the nodes that
\* keeps the depot label 0.
C16_RelabelKeepingDepot ==
    (CostCalled /\ call.cls = "RouteOptimizer") =>
        \A p \in {q \in Relabellings(call.N) : q[0] = 0} : SameCostUnder(p)

\* a costly route away from the depot was relabelled into another route by a
\* relabelling that keeps the depot
C16_Witness ==
    /\ CostCalled
    /\ call.cls = "RouteOptimizer"
    /\ returned.value > 0
    /\ call.route # <<>>
    /\ call.route[Len(call.route)] # 0
    /\ \E p \in {q \in Relabellings(call.N) : q[0] = 0} :
          /\ RelabelRoute(call.route, p) # call.route
          /\ RelabelMatrix(call.tm, p) # call.tm

BaselineCalled == call.op = "create_baseline_route" /\ returned.status = "ok"

\* the nodes of a route before its n-th
Before(route, n) == {route[m] : m \in 1..n - 1}

\* C19: for every N x N matrix with N >= 1 the nearest-neighbour baseline returns
\* a route of length N that starts at index 0 and holds every node exactly once,
\* and each node after the first is an unvisited node of minimum travel time from
\* the node before it, the lowest index among ties.
C19_NearestNeighbour ==
    BaselineCalled =>
        LET route == returned.value
            unvisited(n) == (0..call.N - 1) \ Before(route, n)
        IN /\ Len(route) = call.N
           /\ route[1] = 0
           /\ \A node \in 0..call.N - 1 :
                  Cardinality({n \in 1..Len(route) : route[n] = node}) = 1
           /\ \A n \in 2..Len(route) :
                  /\ route[n] \in unvisited(n)
                  /\ \A x \in unvisited(n) :
                         \/ call.tm[route[n - 1]][route[n]] < call.tm[route[n - 1]][x]
                         \/ /\ call.tm[route[n - 1]][route[n]] = call.tm[route[n - 1]][x]
                            /\ route[n] <= x

\* on 3 nodes the baseline took node 1 out of a tie with node 2, and then went on
\* along a leg that costs time
C19_Witness ==
    /\ BaselineCalled
    /\ call.cls = "RouteOptimizer"
    /\ call.N = 3
    /\ call.tm[0][1] = call.tm[0][2]
    /\ call.tm[1][2] > 0
    /\ returned.value = <<0, 1, 2>>

----------------------------------------------------------------------------
(* Properties of the route metrics, checked under SpecMetrics *)

Compared == call.op = "compare_with_baseline"

\* the call returned an improvement percentage that is a number, not nan or inf
DefinedPercent == returned.status = "ok" /\ returned.improvement_percent.kind = "number"

\* C17: for every matrix and every route, routes of fewer than 2 nodes and routes
\* of zero cost included, compare_with_baseline(matrix, route, route) yields
\* improvement_percent = 0 and time_saved = 0.  The code violates it: the
\* percentage is time_saved / baseline_time, so a route of zero cost gives 0 / 0,
\* which is nan for numpy floats and a ZeroDivisionError for the Python floats of
\* routes with fewer than 2 nodes.
C17_SameRouteNoImprovement ==
    (Compared /\ call.baseline_route = call.optimized_route) =>
        /\ DefinedPercent
        /\ returned.improvement_percent.num = 0
        /\ returned.time_saved = 0

\* C18: compare_with_baseline guards a baseline time of 0: when the baseline route
\* costs 0 and the optimized route differs from it, the call returns a result,
\* raises no division error and yields a defined improvement percentage.  The
\* code violates it: it divides by baseline_time without a test.
C18_ZeroBaselineGuarded ==
    (/\ Compared
     /\ calculate_route_time(call.baseline_route, call.tm) = 0
     /\ call.baseline_route # call.optimized_route) => DefinedPercent

RECURSIVE Arrival(_, _, _)
\* the travel time from the start of a route up to its n-th node
Arrival(route, M, n) ==
    IF n <= 1 THEN 0 ELSE Arrival(route, M, n - 1) + M[route[n - 1]][route[n]]

\* the stops of the call's route that are reached within their window
OnTimeStops ==
    {n \in 2..Len(call.route) :
        /\ call.tw[call.route[n] + 1][1] <= Arrival(call.route, call.tm, n)
        /\ Arrival(call.route, call.tm, n) <= call.tw[call.route[n] + 1][2]}

\* C20: onTimeRatio counts a stop as on time exactly when the travel time from the
\* start of the route up to the arrival at that stop, the leg from the first node
\* to the second included, lies within the stop's window; the result is
\* 100 * count / max(1, stops - 1), and 100 when no windows are given (stated here
\* for routes of at least 2 nodes).  The code violates it: it tests a stop before
\* it adds a leg and starts from 0 at the second node, so the leg from the first
\* node to the second is never counted.
C20_OnTimeRatio ==
    (call.op = "calculate_on_time_deliveries" /\ returned.status = "ok") =>
        IF call.tw = <<>> THEN returned.value.num = 100 * returned.value.den
        ELSE Len(call.route) >= 2 =>
                 returned.value.num * (Len(call.route) - 1)
                     = 100 * Cardinality(OnTimeStops) * returned.value.den

----------------------------------------------------------------------------
(* Properties of the traffic simulator, checked under SpecSim *)

SimCalled(op) == call.op = op /\ returned.status = "ok"

\* what a simulator without any earlier call returns for the call just made
FreshScenario(scenario) ==
    simulate_scenario(<<>>, call.coords, scenario, call.now, call.now.minute + call.late)

\* C21: on a simulator without earlier calls, the storm matrix has on every
\* consecutive edge (i, i+1) at least 2.0 times the entry of the normal matrix for
\* the same coordinates and clock, the road closures of the storm call being
\* active in that call.  The code violates it: add_incident reads the clock after
\* simulate_scenario has read it, so the closures start later than the simulated
\* time and only the weather factor 1.8 is left.
C21_StormAtLeastDouble ==
    (SimCalled("simulate_scenario") /\ call.scenario = "storm" /\ call.before = <<>>) =>
        \A i \in 0..Len(call.coords) - 2 :
            returned.value.time_matrix[i][i + 1]
                >= 2 * FreshScenario("normal").time_matrix[i][i + 1]

\* C22: after any earlier simulate_scenario calls on the same simulator, the matrix
\* simulate_scenario returns for given coordinates, scenario and clock is the one
\* a simulator without earlier calls returns.  The code violates
\* it: the incidents of earlier calls stay in self.incidents, normal and peak
\* clear only a local variable.
C22_CallsIndependent ==
    (/\ SimCalled("simulate_scenario")
     /\ \A k \in 1..Len(call.earlier) : call.earlier[k] = "simulate_scenario") =>
        returned.value.time_matrix = FreshScenario(call.scenario).time_matrix

\* C27: after any add_incident calls the matrix of compute_travel_time_matrix is
\* square of size N with a zero diagonal and no negative entry.  The code violates
\* it: a negative severity gives a negative multiplier and a negative travel time.
C27_MatrixWellFormed ==
    SimCalled("compute_travel_time_matrix") =>
        LET N == Len(call.coords)
            tm == returned.value.time_matrix
        IN /\ DOMAIN tm = 0..N - 1
           /\ \A i \in 0..N - 1 :
                 /\ DOMAIN tm[i] = 0..N - 1
                 /\ tm[i][i] = 0
                 /\ \A j \in 0..N - 1 : tm[i][j] >= 0

----------------------------------------------------------------------------
(* Properties of the endpoint, checked under SpecApi *)

\* a latitude within [-90, 90] degrees, in hundredths of a degree
ValidPlace(c) == c * 1124 <= 9000

\* a request body the endpoint has to reject
Rejectable ==
    \/ Len(call.coords) < 2
    \/ \E i \in 1..Len(call.coords) : ~ValidPlace(call.coords[i])
    \/ (call.tw # <<>> /\ Len(call.tw) # Len(call.coords))

\* C23: a request with no or fewer than 2 coordinates, an out-of-range coordinate
\* or a time-window list of another length than the coordinate list is rejected
\* before any computation: no matrix is computed, no incident is registered and no
\* history record is appended.  The code violates it: the handler checks only the
\* number of coordinates.
C23_RejectedBeforeComputation ==
    (call.op = "api_optimize" /\ Rejectable) =>
        /\ returned.status = 400
        /\ input = NoInput
        /\ incidents = call.incidents
        /\ optimization_history = call.history

----------------------------------------------------------------------------
(* Properties of the engine's history, checked under SpecHistory *)

\* the operation of the step that is being taken
Stepping(op) == call'.op = op

\* the history after the step begins with the history before it
KeepsRecords ==
    /\ Len(optimization_history') >= Len(optimization_history)
    /\ \A k \in 1..Len(optimization_history) :
          optimization_history'[k] = optimization_history[k]

----------------------------------------------------------------------------
(* Properties of concurrent requests, checked under SpecConc *)

\* C25: for every interleaving of two requests on the shared engine, what each
\* returns is what it returns when the engine serves it alone.  The code violates
\* it: both handlers write and read self.incidents of the one simulator (see
\* C22), so the closures of a storm request enter the matrix of the other.
C25_ConcurrentCallsIndependent ==
    \A r \in Requests :
        returned[r].status # "none" => returned[r].out = returned[r].alone

----------------------------------------------------------------------------
(* Properties of the simplified optimizer, checked under SpecSimple *)

\* the fraction f is the whole number n
IsNumber(f, n) == f.kind = "number" /\ f.num = n * f.den

\* C30: in the record of SimpleRouteOptimizer.optimize_route with a baseline that
\* takes time, time_saved_minutes is baseline_time - optimized_time and
\* improvement_percent is (baseline_time - optimized_time) / baseline_time * 100,
\* so that an optimized route that costs what the baseline costs is reported with
\* 0 improvement and 0 time saved.  The code violates it: the improvement is
\* raised to at least 5 percent and the time saved is computed from it.
C30_ReportedSavings ==
    (/\ call.op = "simple_optimize_route"
     /\ returned.status = "ok"
     /\ returned.value.baseline.total_time > 0) =>
        LET b == returned.value.baseline.total_time
            o == returned.value.optimized.total_time
            imp == returned.value.improvement
        IN /\ IsNumber(imp.time_saved_minutes, b - o)
           /\ imp.improvement_percent.kind = "number"
           /\ imp.improvement_percent.num * b = (b - o) * 100 * imp.improvement_percent.den
           /\ o = b => /\ IsNumber(imp.improvement_percent, 0)
                       /\ IsNumber(imp.time_saved_minutes, 0)

====
